---- MODULE Spec2Model ----
(***************************************************************************)
(* A model of the l5x tag-value accessors.                                 *)
(*                                                                         *)
(*  - raw-data model (l5x/atomic.py, l5x/array.py, l5x/rawtypes.py): every *)
(*    accessor is a view (offset, length) into the tag's single bytearray. *)
(*  - decorated-data model (l5x/tag.py): values live in XML attributes and *)
(*    an array is resized by regenerating its Element children.            *)
(*                                                                         *)
(* Python integers that are stored into a raw integer are unbounded, so    *)
(* they are kept as little-endian two's-complement byte strings of IntLen  *)
(* bytes (one byte more than the widest raw integer). Subscripts and bit   *)
(* numbers are small and are kept as TLA+ integers.                        *)
(***************************************************************************)
EXTENDS Integers, Sequences, FiniteSets, TLC

VARIABLES dtype, shape, buf, views, last, ops, xml

vars == <<dtype, shape, buf, views, last, ops, xml>>

(***************************************************************************)
(* Bounds of the model.                                                    *)
(***************************************************************************)
\* Bytes in the model of a Python integer.
IntLen == 9
\* Operations performed on an integer tag in one behaviour.
MaxIntOps == 1
\* Largest size of one array dimension.
MaxDim == 2
\* Largest number of elements of an array whose values are written.
MaxElems == 4
\* Bytes of the largest BOOL array.
MaxBoolBytes == 4
\* Bit writes in one behaviour.
MaxBitWrites == 1
\* Shape assignments in one behaviour, and the largest number of elements of
\* a resized array.
MaxResizes == 2
MaxResizeElems == 10
\* Element writes in one behaviour.
MaxElemWrites == 1
\* Value writes to a structure in one behaviour, and the most keys of a
\* dictionary written to it.
MaxStructWrites == 2
MaxDictLen == 2
\* Largest size of one dimension, and largest number of elements, of an
\* array that is only indexed.
MaxLayoutDim == 3
MaxLayoutElems == 12
\* Largest size of one dimension, and largest number of elements, of an
\* array whose raw size is computed.
MaxRawDim == 9
MaxRawElems == 18
\* Bytes of the raw data a document starts with, and modifications of the
\* bytearray in one behaviour.
MaxRawBytes == 2
MaxModifies == 2
\* Operations on a tag of decorated data in one behaviour.
MaxTagOps == 2
\* Accessors of an array tag that are kept for later use.
MaxKept == 1
\* Value writes to an array tag in one behaviour.
MaxArrayWrites == 1

(***************************************************************************)
(* Generic helpers.                                                        *)
(***************************************************************************)
Byte == 0..255

Min(a, b) == IF a < b THEN a ELSE b

Max(a, b) == IF a < b THEN b ELSE a

RECURSIVE Prod(_)
Prod(s) == IF s = <<>> THEN 1 ELSE Head(s) * Prod(Tail(s))

Reverse(s) == [i \in 1..Len(s) |-> s[Len(s) + 1 - i]]

(***************************************************************************)
(* Python integers as two's-complement byte strings.                       *)
(***************************************************************************)
PyZero == [i \in 1..IntLen |-> 0]

\* 2 ** k
PyPow2(k) == [i \in 1..IntLen |-> IF i = (k \div 8) + 1 THEN 2 ^ (k % 8) ELSE 0]

PyInvert(x) == [i \in 1..IntLen |-> 255 - x[i]]

PyInc(x) ==
    LET low == {i \in 1..IntLen : x[i] # 255}
        k == IF low = {} THEN IntLen + 1 ELSE CHOOSE i \in low : \A j \in low : i <= j
    IN [i \in 1..IntLen |-> IF i < k THEN 0 ELSE IF i = k THEN x[i] + 1 ELSE x[i]]

PyDec(x) ==
    LET low == {i \in 1..IntLen : x[i] # 0}
        k == IF low = {} THEN IntLen + 1 ELSE CHOOSE i \in low : \A j \in low : i <= j
    IN [i \in 1..IntLen |-> IF i < k THEN 255 ELSE IF i = k THEN x[i] - 1 ELSE x[i]]

\* -x
PyNeg(x) == PyInc(PyInvert(x))

PyIsNeg(x) == x[IntLen] >= 128

\* x < y
PyLess(x, y) ==
    IF PyIsNeg(x) # PyIsNeg(y)
    THEN PyIsNeg(x)
    ELSE \E i \in 1..IntLen : x[i] < y[i] /\ \A j \in (i + 1)..IntLen : x[j] = y[j]

\* The Python integer of a small TLA+ integer.
RECURSIVE PyNat(_, _)
PyNat(k, i) == IF i > IntLen THEN <<>> ELSE <<k % 256>> \o PyNat(k \div 256, i + 1)

Py(k) == IF k >= 0 THEN PyNat(k, 1) ELSE PyNeg(PyNat(-k, 1))

(***************************************************************************)
(* Python values: a type tag and a payload.                                *)
(***************************************************************************)
PInt(x) == [t |-> "int", v |-> x]
PBool(x) == [t |-> "bool", v |-> x]
PStr == [t |-> "str", v |-> PyZero]
PFloat == [t |-> "float", v |-> PyZero]

\* isinstance(value, int): bool is a subclass of int.
isinstance_int(value) == value.t \in {"int", "bool"}

(***************************************************************************)
(* l5x/rawtypes.py: little-endian ctypes structures over a buffer.         *)
(***************************************************************************)
\* A view is what memoryview(buffer)[start:end] yields: slices are clamped
\* to the sliced object.
View(off, len) == [off |-> off, len |-> len]

Slice(view, start, end) ==
    LET s == Min(start, view.len)
        e == Min(Max(end, s), view.len)
    IN View(view.off + s, e - s)

WholeView(b) == View(0, Len(b))

\* ctypes.sizeof of the raw types SINT, INT, DINT and LINT.
sizeof(t) == CASE t = "SINT" -> 1 [] t = "INT" -> 2 [] t = "DINT" -> 4 [] t = "LINT" -> 8

IntegerTypes == {"SINT", "INT", "DINT", "LINT"}

\* A bug: from_buffer_copy, a ctypes object standing on a private copy.
from_buffer_copy(b, view, n) ==
    [ok |-> view.len >= n, shared |-> FALSE, off |-> view.off, n |-> n,
     copy |-> [i \in 1..Min(n, view.len) |-> b[view.off + i]]]

\* raw_type.from_buffer(raw_data): a ctypes object that shares the memory of
\* the buffer it was made from; it needs n bytes.
from_buffer(b, view, n) ==
    [ok |-> view.len >= n, shared |-> TRUE, off |-> view.off, n |-> n, copy |-> <<>>]

NoRaw == [ok |-> FALSE, shared |-> TRUE, off |-> 0, n |-> 0, copy |-> <<>>]

\* The bytes a ctypes object stands on.
raw_bytes(b, raw) ==
    IF raw.shared THEN [i \in 1..raw.n |-> b[raw.off + i]] ELSE raw.copy

\* Reading the value field of a little-endian signed integer structure.
c_int_get(b, raw) ==
    LET bytes == raw_bytes(b, raw)
    IN [i \in 1..IntLen |->
          IF i <= raw.n THEN bytes[i] ELSE IF bytes[raw.n] >= 128 THEN 255 ELSE 0]

\* A bug: the bytes are stored most-significant first.
c_int_set_bytes_big_endian(x, n) == [i \in 1..n |-> x[n + 1 - i]]

\* Writing the value field: ctypes keeps the low n bytes, without a range
\* check, least-significant byte first.
c_int_set_bytes(x, n) == [i \in 1..n |-> x[i]]

\* The buffer and the ctypes object after the value field was written.
c_int_set(b, raw, x) ==
    LET bytes == c_int_set_bytes(x, raw.n)
    IN IF raw.shared
       THEN [buf |-> [i \in 1..Len(b) |->
                        IF i > raw.off /\ i <= raw.off + raw.n THEN bytes[i - raw.off]
                        ELSE b[i]],
             raw |-> raw]
       ELSE [buf |-> b, raw |-> [raw EXCEPT !.copy = bytes]]

(***************************************************************************)
(* l5x/atomic.py                                                           *)
(***************************************************************************)
\* An accessor: the type it decodes, its buffer (a view of the tag's
\* bytearray), the bit it targets (BOOL only), the subscripts that led to it
\* and the ctypes object cached by get_raw_value.
Accessor(kind, view, bit, path) ==
    [kind |-> kind, view |-> view, bit |-> bit, path |-> path,
     cached |-> FALSE, raw |-> NoRaw]

\* Base.get_raw_value: the cached ctypes object, created on first use.
get_raw_value(b, acc, n) == IF acc.cached THEN acc.raw ELSE from_buffer(b, acc.view, n)

\* raw_storage
raw_size(t) == IF t = "BOOL" THEN 0 ELSE sizeof(t)

\* integer_limits
bits(t) == raw_size(t) * 8

\* A bug: the magnitude limit is used for both signs.
value_min_symmetric(t) == PyNeg(PyDec(PyPow2(bits(t) - 1)))

value_min(t) == PyNeg(PyPow2(bits(t) - 1))

\* A bug: the upper limit is one too large.
value_max_off_by_one(t) == PyPow2(bits(t) - 1)

value_max(t) == PyDec(PyPow2(bits(t) - 1))

\* IntegerValue._validate: the exception raised, or "none".
IntegerValue_validate(t, value) ==
    IF ~isinstance_int(value) THEN "TypeError"
    ELSE IF PyLess(value.v, value_min(t)) \/ PyLess(value_max(t), value.v) THEN "ValueError"
    ELSE "none"

\* DirectValue.__get__ of an integer accessor.
IntegerValue_get(b, acc) ==
    LET raw == get_raw_value(b, acc, sizeof(acc.kind))
    IN [err |-> IF raw.ok THEN "none" ELSE "ValueError",
        value |-> IF raw.ok THEN c_int_get(b, raw) ELSE PyZero,
        acc |-> IF raw.ok THEN [acc EXCEPT !.cached = TRUE, !.raw = raw] ELSE acc]

\* DirectValue.__set__ of an integer accessor: validation, then the write.
IntegerValue_set(b, acc, value) ==
    LET err == IntegerValue_validate(acc.kind, value)
        raw == get_raw_value(b, acc, sizeof(acc.kind))
    IN IF err # "none" THEN [buf |-> b, err |-> err, acc |-> acc]
       ELSE IF ~raw.ok THEN [buf |-> b, err |-> "ValueError", acc |-> acc]
       ELSE LET w == c_int_set(b, raw, value.v)
            IN [buf |-> w.buf, err |-> "none",
                acc |-> [acc EXCEPT !.cached = TRUE, !.raw = w.raw]]

\* Python's &, | and ~ on small integers (two's complement, any width).
RECURSIVE NatAnd(_, _)
NatAnd(a, b) ==
    IF a = 0 \/ b = 0 THEN 0 ELSE (a % 2) * (b % 2) + 2 * NatAnd(a \div 2, b \div 2)

Win == 2 ^ 12

ToWin(x) == x % Win

FromWin(u) == IF u >= Win \div 2 THEN u - Win ELSE u

int_and(a, b) == FromWin(NatAnd(ToWin(a), ToWin(b)))

int_invert(a) == (-a) - 1

int_or(a, b) == int_invert(int_and(int_invert(a), int_invert(b)))

\* The small TLA+ integer of a Python integer that fits two bytes.
PySmall(x) == x[1] + 256 * x[2] - (IF PyIsNeg(x) THEN 65536 ELSE 0)

\* Subscripts and bit numbers as Python values.
PIdx(k) == [t |-> "int", v |-> k]
PIdxStr == [t |-> "str", v |-> 0]

\* A bug: the bit's byte is not looked up, the first byte is used.
get_bit_buffer_first_byte(view, bit) == Slice(view, 0, 1)

\* BOOL.get_bit_buffer: the byte containing a given bit.
get_bit_buffer(view, bit) ==
    LET index == bit \div 8 IN Slice(view, index, index + 1)

\* A bug: the bits of a byte are numbered from the top.
get_bit_position_from_top(bit) == 7 - (bit % 8)

\* BOOL.get_bit_position
get_bit_position(bit) == bit % 8

\* BOOL.get_mask
get_mask(acc) == 2 ^ acc.bit

\* Variant whose range check lets 2 through.
BoolValue_validate_up_to_two(value) ==
    IF ~isinstance_int(value) THEN "TypeError"
    ELSE IF PyLess(value.v, Py(0)) \/ PyLess(Py(2), value.v) THEN "ValueError"
    ELSE "none"

\* BoolValue._validate
BoolValue_validate(value) ==
    IF ~isinstance_int(value) THEN "TypeError"
    ELSE IF PyLess(value.v, Py(0)) \/ PyLess(Py(1), value.v) THEN "ValueError"
    ELSE "none"

\* BoolValue.__get__: BOOLs are read through a SINT standing on the host byte.
BoolValue_get(b, acc) ==
    LET raw == get_raw_value(b, acc, sizeof("SINT"))
        mask == get_mask(acc)
    IN [err |-> IF raw.ok THEN "none" ELSE "ValueError",
        value |-> IF raw.ok /\ int_and(PySmall(c_int_get(b, raw)), mask) # 0
                  THEN Py(1) ELSE Py(0),
        acc |-> IF raw.ok THEN [acc EXCEPT !.cached = TRUE, !.raw = raw] ELSE acc]

\* A bug: the host byte is overwritten instead of modified.
BoolValue_after_overwrite(before, mask, value) == IF value.v # PyZero THEN mask ELSE 0

\* The value BoolValue.__set__ stores into the host SINT.
BoolValue_after(before, mask, value) ==
    IF value.v # PyZero THEN int_or(before, mask) ELSE int_and(before, int_invert(mask))

\* BoolValue.__set__
BoolValue_set(b, acc, value) ==
    LET err == BoolValue_validate(value)
        raw == get_raw_value(b, acc, sizeof("SINT"))
    IN IF err # "none" THEN [buf |-> b, err |-> err, acc |-> acc]
       ELSE IF ~raw.ok THEN [buf |-> b, err |-> "ValueError", acc |-> acc]
       ELSE LET before == PySmall(c_int_get(b, raw))
                after == BoolValue_after(before, get_mask(acc), value)
                w == c_int_set(b, raw, Py(after))
            IN [buf |-> w.buf, err |-> "none",
                acc |-> [acc EXCEPT !.cached = TRUE, !.raw = w.raw]]

\* Variant accepting the bit number one past the sign bit.
validate_bit_number_inclusive(t, bit) ==
    IF bit.t # "int" THEN "TypeError"
    ELSE IF bit.v < 0 \/ bit.v > bits(t) THEN "IndexError"
    ELSE "none"

\* Integer._validate_bit_number
validate_bit_number(t, bit) ==
    IF bit.t # "int" THEN "TypeError"
    ELSE IF bit.v < 0 \/ bit.v >= bits(t) THEN "IndexError"
    ELSE "none"

\* Integer.__getitem__: the IntegerBit accessor of one bit of an integer.
Integer_getitem(acc, bit) ==
    LET err == validate_bit_number(acc.kind, bit)
    IN IF err # "none" THEN [err |-> err, acc |-> acc]
       ELSE [err |-> "none",
             acc |-> Accessor("BOOL", get_bit_buffer(acc.view, bit.v),
                              get_bit_position(bit.v), Append(acc.path, bit.v))]

\* value of any atomic accessor (Integer or BOOL).
Atomic_get(b, acc) ==
    IF acc.kind = "BOOL" THEN BoolValue_get(b, acc) ELSE IntegerValue_get(b, acc)

Atomic_set(b, acc, value) ==
    IF acc.kind = "BOOL" THEN BoolValue_set(b, acc, value) ELSE IntegerValue_set(b, acc, value)

(***************************************************************************)
(* l5x/array.py                                                            *)
(*                                                                         *)
(* shape is what get_dim returns: the dimensions with Dim0, the            *)
(* least-significant one, first. An array accessor has kind "Array"; its   *)
(* path holds the subscripts applied so far, in the order applied.         *)
(***************************************************************************)
\* Python lists and other values that are no integers.
PList(items) == [t |-> "list", v |-> items]
PSet == [t |-> "set", v |-> <<>>]

\* subarray_dim: the subscripts applied so far, the latest first.
subarray_dim(acc) == Reverse(acc.path)

\* A bug: the subscripts are matched with the dimensions from shape[0] on.
which_dim_forward(acc) == Len(subarray_dim(acc))

\* Base.which_dim: the dimension the next subscript applies to (from 0).
which_dim(acc) == Len(shape) - Len(subarray_dim(acc)) - 1

\* shape[:-k]
DropLast(s, k) == SubSeq(s, 1, Len(s) - k)

\* A bug: the dimensions still to come are taken from the wrong end.
get_buffer_wrong_end(acc, index) ==
    LET num_dim == Len(subarray_dim(acc)) + 1
        remaining_dim == SubSeq(shape, num_dim + 1, Len(shape))
        num_bytes == Prod(remaining_dim) * raw_size(dtype)
        start == num_bytes * index
    IN Slice(acc.view, start, start + num_bytes)

\* A bug: every subscript is stepped by the size of one element.
get_buffer_unit_stride(acc, index) ==
    LET num_dim == Len(subarray_dim(acc)) + 1
        remaining_dim == DropLast(shape, num_dim)
        num_bytes == Prod(remaining_dim) * raw_size(dtype)
        start == raw_size(dtype) * index
    IN Slice(acc.view, start, start + num_bytes)

\* Array.get_buffer: the buffer of everything below a given subscript.
get_buffer(acc, index) ==
    LET num_dim == Len(subarray_dim(acc)) + 1
        remaining_dim == DropLast(shape, num_dim)
        num_bytes == Prod(remaining_dim) * raw_size(dtype)
        start == num_bytes * index
    IN Slice(acc.view, start, start + num_bytes)

\* Array.get_member_object and BoolArray.get_member_object
get_member_object(acc, index) ==
    IF dtype = "BOOL"
    THEN Accessor("BOOL", get_bit_buffer(acc.view, index), get_bit_position(index),
                  Append(acc.path, index))
    ELSE Accessor(dtype, get_buffer(acc, index), 0, Append(acc.path, index))

\* Base.__getitem__: a member, or a subarray when subscripts remain.
Base_getitem(acc, index) ==
    IF index.t # "int" THEN [err |-> "TypeError", acc |-> acc]
    ELSE IF index.v < 0 \/ index.v >= shape[which_dim(acc) + 1]
    THEN [err |-> "IndexError", acc |-> acc]
    ELSE IF Len(subarray_dim(acc)) + 1 = Len(shape)
    THEN [err |-> "none", acc |-> get_member_object(acc, index.v)]
    ELSE [err |-> "none",
          acc |-> Accessor("Array", get_buffer(acc, index.v), 0, Append(acc.path, index.v))]

\* Indexing an accessor of any kind: arrays by subscript, integers by bit.
getitem(acc, index) ==
    IF acc.kind = "Array" THEN Base_getitem(acc, index)
    ELSE IF acc.kind = "BOOL" THEN [err |-> "TypeError", acc |-> acc]
    ELSE Integer_getitem(acc, index)

\* acc[p1][p2]...: the subscripts are applied one after the other and the
\* first failure ends the chain.
RECURSIVE getitems(_, _)
getitems(acc, path) ==
    IF path = <<>> THEN [err |-> "none", acc |-> acc]
    ELSE LET g == getitem(acc, Head(path))
         IN IF g.err # "none" THEN g ELSE getitems(g.acc, Tail(path))

\* Value.__set__: the list is checked, then its entries are assigned in
\* order, each through the accessor its subscript yields.
RECURSIVE Value_set(_, _, _), Value_set_from(_, _, _, _)
Value_set_from(b, acc, items, i) ==
    IF i > Len(items) THEN [buf |-> b, err |-> "none"]
    ELSE LET g == Base_getitem(acc, PIdx(i - 1))
             r == IF g.acc.kind = "Array" THEN Value_set(b, g.acc, items[i])
                  ELSE Atomic_set(b, g.acc, items[i])
         IN IF r.err # "none" THEN [buf |-> r.buf, err |-> r.err]
            ELSE Value_set_from(r.buf, acc, items, i + 1)

\* A bug: a short list is extended with its last entry to fill the dimension.
Value_set_repeat_last(b, acc, value) ==
    IF value.t # "list" THEN [buf |-> b, err |-> "TypeError"]
    ELSE IF Len(value.v) > shape[which_dim(acc) + 1] THEN [buf |-> b, err |-> "IndexError"]
    ELSE IF value.v = <<>> THEN [buf |-> b, err |-> "none"]
    ELSE Value_set_from(b, acc,
                        [i \in 1..shape[which_dim(acc) + 1] |->
                            IF i <= Len(value.v) THEN value.v[i] ELSE value.v[Len(value.v)]],
                        1)

\* A bug: a list as long as its dimension is refused.
Value_set_length_off_by_one(b, acc, value) ==
    IF value.t # "list" THEN [buf |-> b, err |-> "TypeError"]
    ELSE IF Len(value.v) >= shape[which_dim(acc) + 1] THEN [buf |-> b, err |-> "IndexError"]
    ELSE Value_set_from(b, acc, value.v, 1)

Value_set(b, acc, value) ==
    IF value.t # "list" THEN [buf |-> b, err |-> "TypeError"]
    ELSE IF Len(value.v) > shape[which_dim(acc) + 1] THEN [buf |-> b, err |-> "IndexError"]
    ELSE Value_set_from(b, acc, value.v, 1)

\* Value.__get__: the values below an array accessor, as nested lists.
RECURSIVE Value_get(_, _), Value_get_from(_, _, _)
Value_get_from(b, acc, i) ==
    IF i > shape[which_dim(acc) + 1] THEN <<>>
    ELSE LET g == Base_getitem(acc, PIdx(i - 1))
             x == IF g.acc.kind = "Array" THEN Value_get(b, g.acc)
                  ELSE PInt(Atomic_get(b, g.acc).value)
         IN <<x>> \o Value_get_from(b, acc, i + 1)

\* A bug: the list is returned in reverse order.
Value_get_reversed(b, acc) == PList(Reverse(Value_get_from(b, acc, 1)))

Value_get(b, acc) == PList(Value_get_from(b, acc, 1))

(***************************************************************************)
(* Integer tags: a tag of an integer type over a buffer of its size.       *)
(***************************************************************************)
\* Buffer contents a tag is loaded with.
FillBytes == {0, 165, 255}

\* Python integers around the limits of an n-byte integer: the low byte,
\* the bytes between, the top byte of the n-byte span and the bytes above.
IntPattern(n, lo, mid, top, ext) ==
    [i \in 1..IntLen |->
        IF i > n THEN ext ELSE IF i = n THEN top ELSE IF i = 1 THEN lo ELSE mid]

IntSamples(t) ==
    {IntPattern(sizeof(t), lo, mid, top, ext) :
        lo \in {0, 1, 255}, mid \in {0, 255}, top \in {0, 127, 128, 255}, ext \in {0, 255}}

IntWriteValues(t) ==
    {PInt(x) : x \in IntSamples(t)} \cup {PStr, PFloat, PBool(Py(1))}

BitWriteValues == {PInt(Py(k)) : k \in -1..2} \cup {PStr, PBool(Py(1))}

BitNumbers(t) == {PIdx(k) : k \in -1..bits(t)} \cup {PIdxStr}

NoXml == [tag |-> "none"]

TagAccessor == CHOOSE a \in views : a.path = <<>>

InitInt ==
    /\ dtype \in IntegerTypes
    /\ shape = <<>>
    /\ \E f \in FillBytes : buf = [i \in 1..sizeof(dtype) |-> f]
    /\ views = {Accessor(dtype, View(0, sizeof(dtype)), 0, <<>>)}
    /\ last = [op |-> "init", err |-> "none", pre |-> <<>>, val |-> PStr, bit |-> PIdx(0)]
    /\ ops = 0
    /\ xml = NoXml

\* tag.value = value
IntWrite ==
    /\ ops < MaxIntOps
    /\ \E value \in IntWriteValues(dtype) :
         LET r == IntegerValue_set(buf, TagAccessor, value)
         IN /\ buf' = r.buf
            /\ views' = (views \ {TagAccessor}) \cup {r.acc}
            /\ last' = [op |-> "IntWrite", err |-> r.err, pre |-> buf, val |-> value,
                        bit |-> PIdx(0)]
    /\ ops' = ops + 1
    /\ UNCHANGED <<dtype, shape, xml>>

\* tag[bit].value = value
BitWrite ==
    /\ ops < MaxIntOps
    /\ \E bit \in BitNumbers(dtype), value \in BitWriteValues :
         LET g == Integer_getitem(TagAccessor, bit)
             r == IF g.err # "none" THEN [buf |-> buf, err |-> g.err]
                  ELSE BoolValue_set(buf, g.acc, value)
         IN /\ buf' = r.buf
            /\ last' = [op |-> "BitWrite", err |-> r.err, pre |-> buf, val |-> value,
                        bit |-> bit]
    /\ ops' = ops + 1
    /\ UNCHANGED <<dtype, shape, views, xml>>

NextInt == IntWrite \/ BitWrite

SpecInt == InitInt /\ [][NextInt]_vars

\* What reading tag.value returns in the current state.
TagValue == IntegerValue_get(buf, TagAccessor).value

\* v is representable in n bytes: the bytes above the n-byte span repeat its sign.
Representable(v, n) ==
    \A i \in (n + 1)..IntLen : v[i] = (IF v[n] >= 128 THEN 255 ELSE 0)

\* C4: for each integer kind SINT, INT, DINT and LINT and every integer v
\* with -2^(8n-1) <= v <= 2^(8n-1)-1, writing v to the value succeeds and a
\* subsequent read of the value returns v.
C4_RoundTrip ==
    (last.op = "IntWrite" /\ last.val.t = "int" /\ Representable(last.val.v, sizeof(dtype)))
        => (last.err = "none" /\ TagValue = last.val.v)

\* A LINT was written its maximum value 2^63 - 1.
C4_Witness ==
    /\ last.op = "IntWrite" /\ last.err = "none" /\ dtype = "LINT"
    /\ last.val = PInt(IntPattern(8, 255, 255, 127, 0))
    /\ last.pre # buf

\* C5: writing to an n-byte integer accessor a value that is not an integer
\* raises TypeError, and writing an integer below -2^(8n-1) or above
\* 2^(8n-1)-1 raises ValueError; in both cases the buffer bytes are unchanged.
C5_Rejects ==
    last.op = "IntWrite" =>
        /\ ~isinstance_int(last.val) => (last.err = "TypeError" /\ buf = last.pre)
        /\ (last.val.t = "int" /\ ~Representable(last.val.v, sizeof(dtype)))
               => (last.err = "ValueError" /\ buf = last.pre)

\* A DINT holding other than zero was written value_max + 1 = 2^31.
C5_Witness ==
    /\ last.op = "IntWrite" /\ dtype = "DINT"
    /\ last.val = PInt(IntPattern(4, 0, 0, 128, 0))
    /\ last.err = "ValueError"
    /\ \A i \in 1..4 : buf[i] = 165

\* The n-byte two's-complement reading of a Python integer.
AsWidth(x, n) ==
    [i \in 1..IntLen |-> IF i <= n THEN x[i] ELSE IF x[n] >= 128 THEN 255 ELSE 0]

AllBytes(b, f) == \A i \in 1..Len(b) : b[i] = f

ValidBitWrite ==
    /\ last.op = "BitWrite"
    /\ last.bit.t = "int" /\ last.bit.v >= 0 /\ last.bit.v < 8 * sizeof(dtype)
    /\ last.val \in {PInt(Py(0)), PInt(Py(1))}

\* C6: for an n-bit integer accessor, when the integer is 0, writing 1 to bit
\* b makes the integer read exactly 1 << b for b < n-1 and the minimum value
\* -2^(n-1) for the sign bit b = n-1; when the integer is -1, writing 0 to
\* bit b makes the integer read ~(1 << b) as an n-bit two's-complement value.
C6_BitAliasing ==
    ValidBitWrite =>
        /\ last.err = "none"
        /\ (AllBytes(last.pre, 0) /\ last.val.v = Py(1))
              => TagValue = (IF last.bit.v < 8 * sizeof(dtype) - 1
                             THEN PyPow2(last.bit.v)
                             ELSE PyNeg(PyPow2(8 * sizeof(dtype) - 1)))
        /\ (AllBytes(last.pre, 255) /\ last.val.v = Py(0))
              => TagValue = AsWidth(PyInvert(PyPow2(last.bit.v)), sizeof(dtype))

\* The sign bit of a zero LINT was set and the LINT reads -2^63.
C6_Witness ==
    /\ ValidBitWrite /\ dtype = "LINT" /\ last.bit.v = 63
    /\ AllBytes(last.pre, 0) /\ last.val.v = Py(1)
    /\ TagValue = IntPattern(8, 0, 0, 128, 255)

\* C23: indexing an n-bit integer accessor with a non-integer raises
\* TypeError and with an integer outside [0, n) raises IndexError, both
\* leaving the buffer alone; every index in [0, n), the sign bit n - 1
\* included, yields a bit accessor on byte (index div 8), bit (index mod 8) of
\* the integer, so the only error left is the one the written value earns.
C23_BitIndexChecks ==
    (last.op = "BitWrite") =>
        \A n \in {8 * sizeof(dtype)} :
           /\ last.bit.t # "int" => (last.err = "TypeError" /\ buf = last.pre)
           /\ (last.bit.t = "int" /\ (last.bit.v < 0 \/ last.bit.v >= n))
                 => (last.err = "IndexError" /\ buf = last.pre)
           /\ (last.bit.t = "int" /\ last.bit.v >= 0 /\ last.bit.v < n)
                 => \A g \in {Integer_getitem(TagAccessor, last.bit)} :
                      /\ g.err = "none"
                      /\ g.acc.kind = "BOOL"
                      /\ g.acc.view = View(last.bit.v \div 8, 1)
                      /\ g.acc.bit = last.bit.v % 8
                      /\ last.err = BoolValue_validate(last.val)
                      /\ last.err # "IndexError"

\* The sign bit of an all-zero DINT was written through tag[31]: the write
\* went through and the last byte became 80 hex.
C23_Witness ==
    /\ last.op = "BitWrite" /\ last.err = "none"
    /\ dtype = "DINT" /\ last.bit = PIdx(31) /\ last.val = PInt(Py(1))
    /\ AllBytes(last.pre, 0)
    /\ buf = <<0, 0, 0, 128>>

\* tag[-1] and tag[32] of a DINT raised IndexError.
C23_OutsideWitness ==
    /\ last.op = "BitWrite" /\ last.err = "IndexError"
    /\ dtype = "DINT" /\ last.bit \in {PIdx(-1), PIdx(32)}

(***************************************************************************)
(* Array tags of an integer type, one to three dimensions.                 *)
(***************************************************************************)
ArrayShapes == {sh \in UNION {[1..k -> 1..MaxDim] : k \in 1..3} : Prod(sh) <= MaxElems}

\* The accessor of the whole tag.
ArrayAccessor == Accessor("Array", WholeView(buf), 0, <<>>)

\* The subscript sequences that stay inside the shape, of a given length.
LargestDim == CHOOSE d \in {shape[i] : i \in 1..Len(shape)} : \A i \in 1..Len(shape) : shape[i] <= d

SubscriptPaths(k) ==
    {p \in [1..k -> 0..(LargestDim - 1)] : \A i \in 1..k : p[i] < shape[Len(shape) + 1 - i]}

ElementPaths == SubscriptPaths(Len(shape))

ArrayPaths == UNION {SubscriptPaths(k) : k \in 0..(Len(shape) - 1)}

BitSamples == {0, bits(dtype) - 1}

BitPaths == {Append(p, k) : p \in ElementPaths, k \in BitSamples}

PyPath(p) == [i \in 1..Len(p) |-> PIdx(p[i])]

\* One more subscript on a path that is inside the shape: any subscript from
\* one below to one above the range, or a string.
IndexPaths ==
    UNION {{Append(PyPath(p), x) :
              x \in {PIdx(k) : k \in -1..shape[Len(shape) - Len(p)]} \cup {PIdxStr}} :
           p \in ArrayPaths}
    \cup {Append(PyPath(p), x) :
            p \in ElementPaths, x \in {PIdx(k) : k \in BitSamples \cup {-1, bits(dtype)}}}

ElemValues == {PInt(Py(-2)), PInt(Py(300)), PInt(Py(40000)), PStr}

BitValues == {PInt(Py(0)), PInt(Py(1)), PInt(Py(2))}

\* Lists of up to MaxDim entries from a pool, and one list that is too long
\* for every dimension.
ListsOver(pool, good) ==
    {PList(l) : l \in UNION {[1..k -> pool] : k \in 0..MaxDim}}
    \cup {PList([i \in 1..(MaxDim + 1) |-> good])}

Good1 == PList([i \in 1..MaxDim |-> PInt(Py(-2))])
Long1 == PList([i \in 1..(MaxDim + 1) |-> PInt(Py(-2))])
Bad1 == PList(<<PInt(Py(-2)), PInt(Py(40000))>>)
Good2 == PList([i \in 1..MaxDim |-> Good1])
Long2 == PList(<<Good1, Long1>>)
Bad2 == PList(<<Good1, PSet>>)

\* The values assigned to an array accessor with k subscripts still open.
ListValues1 == {PSet} \cup ListsOver({PInt(Py(-2)), PInt(Py(40000)), PStr}, PInt(Py(-2)))
ListValues2 == {PSet} \cup ListsOver({Good1, Bad1, Long1, PSet}, Good1)
ListValues3 == {PSet} \cup ListsOver({Good2, Bad2, Long2}, Good2)

ListValues(k) == CASE k = 1 -> ListValues1 [] k = 2 -> ListValues2 [] OTHER -> ListValues3

\* The values that are assigned through an accessor.
ValuesFor(acc) ==
    IF acc.kind = "Array" THEN ListValues(Len(shape) - Len(acc.path))
    ELSE IF acc.kind = "BOOL" THEN BitValues
    ELSE ElemValues

\* accessor.value = value
Any_set(b, acc, value) ==
    IF acc.kind = "Array"
    THEN LET r == Value_set(b, acc, value) IN [buf |-> r.buf, err |-> r.err, acc |-> acc]
    ELSE Atomic_set(b, acc, value)

\* accessor.value
Any_get(b, acc) ==
    IF acc.kind = "Array"
    THEN [err |-> "none", value |-> Value_get(b, acc), acc |-> acc]
    ELSE LET r == Atomic_get(b, acc) IN [r EXCEPT !.value = PInt(r.value)]

Kept == {a \in views : a.path # <<>>}

NoAcc == Accessor("none", View(0, 0), 0, <<>>)

InitArray ==
    /\ dtype \in {"SINT", "INT"}
    /\ shape \in ArrayShapes
    /\ buf = [i \in 1..(Prod(shape) * sizeof(dtype)) |-> 165]
    /\ views = {Accessor("Array", View(0, Prod(shape) * sizeof(dtype)), 0, <<>>)}
    /\ last = [op |-> "init", err |-> "none", pre |-> <<>>, val |-> PStr, path |-> <<>>,
               acc |-> NoAcc]
    /\ ops = 0
    /\ xml = NoXml

\* x = tag[i]..., keeping x.
Index ==
    /\ Cardinality(Kept) < MaxKept
    /\ \E path \in IndexPaths :
         LET g == getitems(ArrayAccessor, path)
         IN /\ views' = IF g.err = "none" THEN views \cup {g.acc} ELSE views
            /\ last' = [op |-> "Index", err |-> g.err, pre |-> buf, val |-> PStr,
                        path |-> path, acc |-> IF g.err = "none" THEN g.acc ELSE NoAcc]
    /\ UNCHANGED <<dtype, shape, buf, ops, xml>>

\* x.value, for a kept accessor x.
Read ==
    /\ last.op # "Read"
    /\ \E a \in Kept :
         LET r == Any_get(buf, a)
         IN /\ views' = (views \ {a}) \cup {r.acc}
            /\ last' = [op |-> "Read", err |-> r.err, pre |-> buf, val |-> r.value,
                        path |-> PyPath(a.path), acc |-> r.acc]
    /\ UNCHANGED <<dtype, shape, buf, ops, xml>>

\* tag[i]....value = value, through accessors made for this statement.
Write ==
    /\ ops < MaxArrayWrites
    /\ \E p \in ArrayPaths \cup ElementPaths \cup BitPaths :
         LET g == getitems(ArrayAccessor, PyPath(p))
         IN \E value \in ValuesFor(g.acc) :
              LET r == Any_set(buf, g.acc, value)
              IN /\ buf' = r.buf
                 /\ last' = [op |-> "Write", err |-> r.err, pre |-> buf, val |-> value,
                             path |-> PyPath(p), acc |-> g.acc]
    /\ ops' = ops + 1
    /\ UNCHANGED <<dtype, shape, views, xml>>

\* x.value = value, for a kept accessor x.
WriteKept ==
    /\ ops < MaxArrayWrites
    /\ \E a \in Kept, value \in {PInt(Py(1)), PInt(Py(-2)), Good1} :
         LET r == Any_set(buf, a, value)
         IN /\ buf' = r.buf
            /\ views' = (views \ {a}) \cup {r.acc}
            /\ last' = [op |-> "WriteKept", err |-> r.err, pre |-> buf, val |-> value,
                        path |-> PyPath(a.path), acc |-> r.acc]
    /\ ops' = ops + 1
    /\ UNCHANGED <<dtype, shape, xml>>

NextArray == Index \/ Read \/ Write \/ WriteKept

SpecArray == InitArray /\ [][NextArray]_vars

(***************************************************************************)
(* Array tags that are only indexed: the layout of the elements.           *)
(***************************************************************************)
LayoutShapes ==
    {sh \in UNION {[1..k -> 1..MaxLayoutDim] : k \in 1..3} : Prod(sh) <= MaxLayoutElems}

InitLayout ==
    /\ dtype \in IntegerTypes
    /\ shape \in LayoutShapes
    /\ buf = [i \in 1..(Prod(shape) * sizeof(dtype)) |-> 0]
    /\ views = {Accessor("Array", View(0, Prod(shape) * sizeof(dtype)), 0, <<>>)}
    /\ last = [op |-> "init", err |-> "none", pre |-> <<>>, val |-> PStr, path |-> <<>>,
               acc |-> NoAcc]
    /\ ops = 0
    /\ xml = NoXml

NextLayout == Index \/ Read

SpecLayout == InitLayout /\ [][NextLayout]_vars

\* The span of the element a full subscript sequence leads to.
ElementView(p) == getitems(ArrayAccessor, PyPath(p)).acc.view

Overlap(v, w) == v.off < w.off + w.len /\ w.off < v.off + v.len

\* The offsets of the bytes of a span.
SpanBytes(v) == v.off..(v.off + v.len - 1)

\* C1: for a non-BOOL array with 1 to 3 dimensions, element size s and a
\* buffer of exactly d0*...*dk*s bytes, the element spans reached by all
\* in-bounds full subscript sequences are each s bytes long, pairwise
\* non-overlapping, inside the buffer, and together cover the whole buffer.
C1_ElementSpans ==
    \A span \in {[p \in ElementPaths |-> getitems(ArrayAccessor, PyPath(p))]} :
       /\ \A p \in DOMAIN span :
            /\ span[p].err = "none"
            /\ span[p].acc.view.len = raw_size(dtype)
            /\ span[p].acc.view.off >= 0
            /\ span[p].acc.view.off + span[p].acc.view.len <= Len(buf)
       /\ \A p, q \in DOMAIN span :
            p # q => ~Overlap(span[p].acc.view, span[q].acc.view)
       /\ UNION {SpanBytes(span[p].acc.view) : p \in DOMAIN span} = 0..(Len(buf) - 1)

\* Element [1][2][1] of a DINT array with dimensions (d0, d1, d2) = (2, 3, 2)
\* was indexed and stands on bytes 44..47.
C1_Witness ==
    /\ dtype = "DINT" /\ shape = <<2, 3, 2>>
    /\ last.op = "Index" /\ last.err = "none"
    /\ last.path = PyPath(<<1, 2, 1>>)
    /\ last.acc.view = View(44, 4)
    /\ last.acc \in views

IsWrite == last.op \in {"Write", "WriteKept"}

\* C2: a whole-array value write is all-or-nothing: whenever assigning a
\* (possibly nested) list to the value of an array or subarray raises an
\* error, no element of the array has been modified.
C2_AllOrNothing ==
    (IsWrite /\ last.acc.kind = "Array" /\ last.err # "none") => buf = last.pre

\* The integer that n bytes at an offset of the buffer encode.
DecodeAt(b, off, n) ==
    [i \in 1..IntLen |->
        IF i <= n THEN b[off + i] ELSE IF b[off + n] >= 128 THEN 255 ELSE 0]

BitOf(byte, k) == (byte \div (2 ^ k)) % 2

\* The leaves of a nested list, in order.
RECURSIVE Flatten(_)
Flatten(value) ==
    IF value.t # "list" THEN <<value>>
    ELSE IF value.v = <<>> THEN <<>>
    ELSE Flatten(Head(value.v)) \o Flatten(PList(Tail(value.v)))

\* What the bytes under an accessor encode, read off the buffer directly.
Direct(b, acc) ==
    IF acc.kind = "BOOL" THEN <<PInt(Py(BitOf(b[acc.view.off + 1], acc.bit)))>>
    ELSE [i \in 1..(acc.view.len \div sizeof(dtype)) |->
            PInt(DecodeAt(b, acc.view.off + (i - 1) * sizeof(dtype), sizeof(dtype)))]

\* A list that was assigned is found again at the start of the list read,
\* at every nesting level.
RECURSIVE StartsWith(_, _)
StartsWith(read, written) ==
    IF written.t # "list" THEN read = written
    ELSE /\ read.t = "list"
         /\ Len(written.v) <= Len(read.v)
         /\ \A i \in 1..Len(written.v) : StartsWith(read.v[i], written.v[i])

\* C3: all accessors derived from one tag operate on the tag's single
\* buffer: after a value is written through any accessor (element, integer,
\* bit, subarray or whole array), every other accessor whose span overlaps
\* the written bytes, including accessors created before the write, reads
\* the newly written bytes.
C3_SharedBuffer ==
    (IsWrite /\ last.err = "none") =>
        /\ StartsWith(Any_get(buf, getitems(ArrayAccessor, last.path).acc).value, last.val)
        /\ \A a \in Kept :
             Overlap(a.view, last.acc.view)
                 => Flatten(Any_get(buf, a).value) = Direct(buf, a)

\* An element accessor that was made and read before the write reads a
\* value that was written through the whole array.
C3_Witness ==
    /\ last.op = "Write" /\ last.err = "none" /\ last.acc.kind = "Array" /\ last.path = <<>>
    /\ Len(shape) = 2
    /\ \E a \in Kept :
         /\ a.kind = "INT" /\ a.cached
         /\ \E i \in 1..2 : buf[a.view.off + i] # last.pre[a.view.off + i]
         /\ Any_get(buf, a).value = PInt(Py(-2))

(***************************************************************************)
(* Bit accessors: the elements of a BOOL array and the bits of the         *)
(* elements of an integer array. A BOOL structure member is the same       *)
(* accessor as an element of a BOOL array of one byte.                     *)
(***************************************************************************)
BoolShapes == {<<8 * k>> : k \in 1..MaxBoolBytes}

IntShapes == {<<d>> : d \in 1..MaxDim}

\* The bytes of a BOOL array (BoolRawSize) or of an integer array.
DataSize == IF dtype = "BOOL" THEN shape[1] \div 8 ELSE Prod(shape) * sizeof(dtype)

\* The subscripts that lead to a bit accessor.
AllBitPaths ==
    IF dtype = "BOOL" THEN ElementPaths
    ELSE {Append(p, k) : p \in ElementPaths, k \in 0..(bits(dtype) - 1)}

InitBits ==
    /\ \/ dtype = "BOOL" /\ shape \in BoolShapes
       \/ dtype \in {"SINT", "INT", "DINT"} /\ shape \in IntShapes
    /\ \E f \in FillBytes : buf = [i \in 1..DataSize |-> f]
    /\ views = {Accessor("Array", View(0, DataSize), 0, <<>>)}
    /\ last = [op |-> "init", err |-> "none", pre |-> <<>>, val |-> PStr, path |-> <<>>,
               acc |-> NoAcc]
    /\ ops = 0
    /\ xml = NoXml

\* tag[i].value = value for a BOOL array, tag[i][bit].value = value for an
\* integer array.
BoolWrite ==
    /\ ops < MaxBitWrites
    /\ \E p \in AllBitPaths, value \in BitWriteValues :
         LET g == getitems(ArrayAccessor, PyPath(p))
             r == BoolValue_set(buf, g.acc, value)
         IN /\ buf' = r.buf
            /\ last' = [op |-> "BoolWrite", err |-> r.err, pre |-> buf, val |-> value,
                        path |-> PyPath(p), acc |-> g.acc]
    /\ ops' = ops + 1
    /\ UNCHANGED <<dtype, shape, views, xml>>

NextBits == BoolWrite

SpecBits == InitBits /\ [][NextBits]_vars

ZeroOrOne == {PInt(Py(0)), PInt(Py(1))}

\* C7: writing 0 or 1 through a bit accessor (integer bit, BOOL member or
\* BOOL array element) affects only the target bit: for any prior buffer
\* contents, every other bit of the host byte and every other byte of the
\* buffer keeps its previous value, and the write never fails for any bit
\* position 0..7 of the host byte.
C7_OnlyTargetBit ==
    (last.op = "BoolWrite" /\ last.val \in ZeroOrOne) =>
        /\ last.err = "none"
        /\ \A i \in 1..Len(buf), k \in 0..7 :
             IF i = last.acc.view.off + 1 /\ k = last.acc.bit
             THEN Py(BitOf(buf[i], k)) = last.val.v
             ELSE BitOf(buf[i], k) = BitOf(last.pre[i], k)

\* Bit 31 of the second element of a DINT array holding A5 bytes was cleared:
\* the last byte became 25 and no other byte changed.
C7_Witness ==
    /\ last.op = "BoolWrite" /\ last.err = "none"
    /\ dtype = "DINT" /\ shape = <<2>>
    /\ last.path = PyPath(<<1, 31>>) /\ last.val = PInt(Py(0))
    /\ last.pre = [i \in 1..8 |-> 165]
    /\ buf = [i \in 1..8 |-> IF i = 8 THEN 37 ELSE 165]

\* C8: in a BOOL array of N elements, element i aliases bit (i mod 8) of
\* byte (i div 8) of the array's packed region: writing 1 to element i of an
\* all-zero region leaves exactly that one bit set in the buffer, and
\* afterwards element j reads 1 if and only if j = i.
C8_BoolArrayBit ==
    (/\ last.op = "BoolWrite" /\ dtype = "BOOL"
     /\ AllBytes(last.pre, 0) /\ last.val = PInt(Py(1)))
        => \A target \in {last.path[1].v} :
             /\ last.err = "none"
             /\ \A b \in 0..(Len(buf) - 1), k \in 0..7 :
                  BitOf(buf[b + 1], k) = 1 <=> (b = target \div 8 /\ k = target % 8)
             /\ \A j \in 0..(shape[1] - 1) :
                  Atomic_get(buf, getitems(ArrayAccessor, <<PIdx(j)>>).acc).value = Py(1)
                      <=> j = target

\* Element 9 of a BOOL array of 32 elements over four zero bytes was set:
\* the buffer is 00 02 00 00.
C8_Witness ==
    /\ last.op = "BoolWrite" /\ last.err = "none" /\ dtype = "BOOL" /\ shape = <<32>>
    /\ last.path = PyPath(<<9>>) /\ last.val = PInt(Py(1))
    /\ AllBytes(last.pre, 0)
    /\ buf = <<0, 2, 0, 0>>

\* C24: writing to a bit or BOOL accessor an integer other than 0 or 1
\* raises ValueError and writing a value that is not an integer raises
\* TypeError; in both cases no byte of the buffer, the host byte included,
\* changes.
C24_RejectedBitWrite ==
    (last.op = "BoolWrite") =>
        /\ (last.val.t = "int" /\ last.val \notin ZeroOrOne)
              => (last.err = "ValueError" /\ buf = last.pre)
        /\ ~isinstance_int(last.val)
              => (last.err = "TypeError" /\ buf = last.pre)
        /\ last.err # "none"
              => buf[last.acc.view.off + 1] = last.pre[last.acc.view.off + 1]

\* 2 was written to bit 7 of the first element of an INT array holding A5
\* bytes: ValueError, and the host byte is still A5.
C24_Witness ==
    /\ last.op = "BoolWrite" /\ last.err = "ValueError"
    /\ dtype = "INT" /\ last.path = PyPath(<<0, 7>>) /\ last.val = PInt(Py(2))
    /\ buf[1] = 165 /\ buf = last.pre

\* A string was written to element 9 of a BOOL array: TypeError, buffer as
\* before. -1 was written to a BOOL element: ValueError.
C24_BoolWitness ==
    /\ last.op = "BoolWrite" /\ dtype = "BOOL" /\ buf = last.pre
    /\ \/ last.err = "TypeError" /\ last.val = PStr /\ last.path = PyPath(<<9>>)
       \/ last.err = "ValueError" /\ last.val = PInt(Py(-1))

(***************************************************************************)
(* l5x/tag.py: arrays of the decorated data. The document part of an array *)
(* is the Dimensions attribute of the Tag element, the Dimensions          *)
(* attribute of the Array element, the Element children of the Array       *)
(* element and the Data children of the Tag element. Attribute values are  *)
(* strings, modelled as sequences of characters.                           *)
(***************************************************************************)
DigitChars == <<"0", "1", "2", "3", "4", "5", "6", "7", "8", "9">>

IsDigit(c) == \E d \in 0..9 : DigitChars[d + 1] = c

DigitValue(c) == CHOOSE d \in 0..9 : DigitChars[d + 1] = c

\* str() of an integer.
RECURSIVE str_int(_)
str_int(k) ==
    IF k < 0 THEN <<"-">> \o str_int(-k)
    ELSE IF k < 10 THEN <<DigitChars[k + 1]>>
    ELSE str_int(k \div 10) \o <<DigitChars[(k % 10) + 1]>>

\* str() of a dimension: str(True) is "True".
str(item) ==
    IF item.t = "bool"
    THEN (IF item.v = 1 THEN <<"T", "r", "u", "e">> ELSE <<"F", "a", "l", "s", "e">>)
    ELSE str_int(item.v)

\* sep.join(strs)
RECURSIVE join(_, _)
join(sep, strs) ==
    IF strs = <<>> THEN <<>>
    ELSE IF Len(strs) = 1 THEN strs[1]
    ELSE strs[1] \o <<sep>> \o join(sep, Tail(strs))

\* s.split(sep)
RECURSIVE split(_, _)
split(s, sep) ==
    IF \A i \in 1..Len(s) : s[i] # sep THEN <<s>>
    ELSE LET k == CHOOSE i \in 1..Len(s) : s[i] = sep /\ \A j \in 1..(i - 1) : s[j] # sep
         IN <<SubSeq(s, 1, k - 1)>> \o split(SubSeq(s, k + 1, Len(s)), sep)

RECURSIVE strip(_)
strip(s) ==
    IF s = <<>> THEN s
    ELSE IF s[1] = " " THEN strip(Tail(s))
    ELSE IF s[Len(s)] = " " THEN strip(SubSeq(s, 1, Len(s) - 1))
    ELSE s

RECURSIVE DecValue(_)
DecValue(s) ==
    IF s = <<>> THEN 0
    ELSE 10 * DecValue(SubSeq(s, 1, Len(s) - 1)) + DigitValue(s[Len(s)])

\* int() of a string of decimal digits, with or without a minus sign; anything
\* else is a ValueError.
int_of_str(s) ==
    IF strip(s) # <<>> /\ strip(s)[1] = "-"
    THEN IF Len(strip(s)) = 1 \/ \E i \in 2..Len(strip(s)) : ~IsDigit(strip(s)[i])
         THEN [err |-> "ValueError", value |-> 0]
         ELSE [err |-> "none", value |-> 0 - DecValue(Tail(strip(s)))]
    ELSE IF strip(s) = <<>> \/ \E i \in 1..Len(strip(s)) : ~IsDigit(strip(s)[i])
    THEN [err |-> "ValueError", value |-> 0]
    ELSE [err |-> "none", value |-> DecValue(strip(s))]

PTuple(items) == [t |-> "tuple", v |-> items]

\* range(d)
range(d) == [i \in 1..d |-> i - 1]

\* itertools.product: the last iterable varies fastest.
RECURSIVE product(_)
product(iterables) ==
    IF iterables = <<>> THEN << <<>> >>
    ELSE LET rest == product(Tail(iterables))
         IN [k \in 1..(Len(Head(iterables)) * Len(rest)) |->
                <<Head(iterables)[((k - 1) \div Len(rest)) + 1]>>
                    \o rest[((k - 1) % Len(rest)) + 1]]

\* A bug: only the Data elements without a Format attribute are removed.
clear_raw_data_no_format_only(data) == SelectSeq(data, LAMBDA format : format # "")

\* Tag.clear_raw_data: removes the Data elements that have no Format
\* attribute ("") or a Format other than Decorated.
clear_raw_data(data) == SelectSeq(data, LAMBDA format : format = "Decorated")

\* ArrayShape.__get__
ArrayShape_get(x) ==
    LET dims == [i \in 1..Len(split(x.Dimensions, ",")) |->
                    int_of_str(split(x.Dimensions, ",")[i])]
    IN IF \E i \in 1..Len(dims) : dims[i].err # "none"
       THEN [err |-> "ValueError", value |-> <<>>]
       ELSE [err |-> "none", value |-> Reverse([i \in 1..Len(dims) |-> dims[i].value])]

\* ArrayShape.check_shape: the dimensions are checked in order.
RECURSIVE check_dims(_)
check_dims(dims) ==
    IF dims = <<>> THEN "none"
    ELSE IF ~isinstance_int(Head(dims)) THEN "TypeError"
    ELSE IF Head(dims).v < 1 THEN "ValueError"
    ELSE check_dims(Tail(dims))

check_shape(value) ==
    IF value.t # "tuple" THEN "TypeError"
    ELSE IF Len(value.v) < 1 \/ Len(value.v) > 3 THEN "ValueError"
    ELSE check_dims(value.v)

\* A bug: the dimensions are written in the order of the shape.
set_dimensions_no_reverse(x, new_shape) ==
    [x EXCEPT !.TagDimensions = join(" ", [i \in 1..Len(new_shape) |-> str(new_shape[i])]),
              !.Dimensions = join(",", [i \in 1..Len(new_shape) |-> str(new_shape[i])])]

\* Array.set_dimensions
set_dimensions(x, new_shape) ==
    [x EXCEPT !.TagDimensions =
                  join(" ", Reverse([i \in 1..Len(new_shape) |-> str(new_shape[i])])),
              !.Dimensions =
                  join(",", Reverse([i \in 1..Len(new_shape) |-> str(new_shape[i])]))]

\* A bug: the ranges are not reversed before the product.
build_new_indices_no_reverse(new_shape) ==
    product([i \in 1..Len(new_shape) |-> range(new_shape[i].v)])

\* Array.build_new_indices
build_new_indices(new_shape) ==
    product(Reverse([i \in 1..Len(new_shape) |-> range(new_shape[i].v)]))

\* Array.append_element: the new element, a copy of the template.
append_element(template, index) ==
    [template EXCEPT !.Index =
        <<"[">> \o join(",", [i \in 1..Len(index) |-> str_int(index[i])]) \o <<"]">>]

\* The elements appended for a list of indices, in its order.
append_elements(template, indices) ==
    [k \in 1..Len(indices) |-> append_element(template, indices[k])]

\* Array.remove_elements
remove_elements(x) == [x EXCEPT !.Elements = <<>>]

\* Variant that keeps, at every position the old array had, the old value.
resize_keeps_values(x, new_shape) ==
    LET cleared == [set_dimensions(x, new_shape) EXCEPT
                        !.Data = clear_raw_data(x.Data)]
        indices == build_new_indices(new_shape)
    IN IF x.Elements = <<>>
       THEN [xml |-> remove_elements(cleared), err |-> "AttributeError"]
       ELSE [xml |-> [cleared EXCEPT !.Elements =
                         [k \in 1..Len(indices) |->
                             append_element(IF k <= Len(x.Elements) THEN x.Elements[k]
                                            ELSE x.Elements[1],
                                            indices[k])]],
             err |-> "none"]

\* Array.resize. An array without elements has no template: copying it
\* fails after the dimensions were written and the elements removed.
resize(x, new_shape) ==
    LET cleared == [set_dimensions(x, new_shape) EXCEPT
                        !.Data = clear_raw_data(x.Data)]
    IN IF x.Elements = <<>>
       THEN [xml |-> remove_elements(cleared), err |-> "AttributeError"]
       ELSE [xml |-> [cleared EXCEPT !.Elements =
                         append_elements(x.Elements[1], build_new_indices(new_shape))],
             err |-> "none"]

\* Variant that validates the shape before it looks at the element's tag.
ArrayShape_set_checks_shape_first(x, value) ==
    IF check_shape(value) # "none" THEN [xml |-> x, err |-> check_shape(value)]
    ELSE IF x.tag # "Array" THEN [xml |-> x, err |-> "AttributeError"]
    ELSE resize(x, value.v)

\* ArrayShape.__set__
ArrayShape_set(x, value) ==
    IF x.tag # "Array" THEN [xml |-> x, err |-> "AttributeError"]
    ELSE IF check_shape(value) # "none" THEN [xml |-> x, err |-> check_shape(value)]
    ELSE resize(x, value.v)

(***************************************************************************)
(* Shape assignments to an array of the decorated data.                    *)
(***************************************************************************)
\* The shapes of one to three dimensions with at most MaxResizeElems elements.
ResizeShapes ==
    {s \in UNION {[1..n -> 1..MaxResizeElems] : n \in 1..3} : Prod(s) <= MaxResizeElems}

\* What is assigned to shape: the shapes above, and values check_shape is to
\* refuse or meets at its limits.
ShapeValues ==
    {PTuple([i \in 1..Len(s) |-> PIdx(s[i])]) : s \in ResizeShapes}
    \cup {PList(<<PIdx(2)>>), PTuple(<<>>),
          PTuple(<<PIdx(1), PIdx(1), PIdx(1), PIdx(1)>>),
          PTuple(<<PIdx(2), PIdxStr>>), PTuple(<<PIdx(0)>>),
          PTuple(<<PIdx(2), PIdx(-1)>>), PTuple(<<PIdxStr, PIdx(0)>>),
          PTuple(<<[t |-> "bool", v |-> 1]>>)}

\* The document of an array: its elements hold distinct values.
ArrayDocument(tag, s, data) ==
    [tag |-> tag,
     TagDimensions |-> join(" ", Reverse([i \in 1..Len(s) |-> str_int(s[i])])),
     Dimensions |-> join(",", Reverse([i \in 1..Len(s) |-> str_int(s[i])])),
     Elements |-> [k \in 1..Prod(s) |->
                      append_element([Index |-> <<>>, Value |-> str_int(k - 1)],
                                     product(Reverse([i \in 1..Len(s) |-> range(s[i])]))[k])],
     Data |-> data]

InitResize ==
    /\ dtype = "DINT"
    /\ shape = <<>>
    /\ buf = <<>>
    /\ views = {}
    /\ \/ \E s \in {<<3>>, <<2, 2>>}, data \in {<<"Decorated">>, <<"", "L5K", "Decorated">>} :
            xml = ArrayDocument("Array", s, data)
       \/ xml = ArrayDocument("ArrayMember", <<3>>, <<"Decorated">>)
    /\ last = [op |-> "init", err |-> "none", pre |-> NoXml, val |-> PStr]
    /\ ops = 0

\* tag.shape = value
SetShape ==
    /\ ops < MaxResizes
    /\ \E value \in ShapeValues :
         \E r \in {ArrayShape_set(xml, value)} :
            /\ xml' = r.xml
            /\ last' = [op |-> "SetShape", err |-> r.err, pre |-> xml, val |-> value]
    /\ ops' = ops + 1
    /\ UNCHANGED <<dtype, shape, buf, views>>

NextResize == SetShape

SpecResize == InitResize /\ [][NextResize]_vars

\* A tuple of one to three integers, each at least 1 (a bool is not taken
\* for an integer here).
ValidShape(value) ==
    /\ value.t = "tuple"
    /\ Len(value.v) \in 1..3
    /\ \A i \in 1..Len(value.v) : value.v[i].t = "int" /\ value.v[i].v >= 1

ShapeOf(value) == [i \in 1..Len(value.v) |-> value.v[i].v]

\* C9: after assigning a valid shape (a tuple of 1 to 3 integers, each >= 1)
\* to a top-level array tag, reading shape returns the same tuple, the Tag
\* element's Dimensions attribute holds the dimensions space-separated with
\* the most-significant dimension first, and the Array element's Dimensions
\* attribute holds the same sequence comma-separated.
C9_ShapeReadsBack ==
    (last.op = "SetShape" /\ last.pre.tag = "Array" /\ ValidShape(last.val)) =>
        /\ last.err = "none"
        /\ ArrayShape_get(xml) = [err |-> "none", value |-> ShapeOf(last.val)]
        /\ \A dims \in {Reverse(ShapeOf(last.val))} :
             /\ xml.TagDimensions = join(" ", [i \in 1..Len(dims) |-> str_int(dims[i])])
             /\ xml.Dimensions = join(",", [i \in 1..Len(dims) |-> str_int(dims[i])])

\* The shape (1, 10) was assigned: the attributes read "10 1" and "10,1".
C9_Witness ==
    /\ last.op = "SetShape" /\ last.err = "none"
    /\ last.val = PTuple(<<PIdx(1), PIdx(10)>>)
    /\ xml.TagDimensions = <<"1", "0", " ", "1">>
    /\ xml.Dimensions = <<"1", "0", ",", "1">>
    /\ ArrayShape_get(xml).value = <<1, 10>>

\* C25: assigning a shape to an array that is a structure member raises
\* AttributeError whatever the value assigned, a valid shape or one that
\* check_shape would refuse, and leaves the member's dimensions and elements
\* (the whole document) as they were.
C25_MemberNotResized ==
    (last.op = "SetShape" /\ last.pre.tag # "Array") =>
        /\ last.err = "AttributeError"
        /\ xml = last.pre
        /\ xml.Dimensions = last.pre.Dimensions
        /\ xml.Elements = last.pre.Elements

\* A list, which check_shape refuses with TypeError, and the valid shape
\* (4,) were each assigned to a member array of three elements, one after the
\* other: AttributeError, three elements still.
C25_Witness ==
    /\ last.op = "SetShape" /\ last.err = "AttributeError"
    /\ last.pre.tag = "ArrayMember"
    /\ last.val \in {PList(<<PIdx(2)>>), PTuple(<<PIdx(4)>>)}
    /\ ops = 2
    /\ Len(xml.Elements) = 3 /\ xml.Dimensions = <<"3">>

\* The Index of the element with the given subscripts, subscript[1] being
\* that of the least-significant dimension.
IndexOf(subscript) ==
    <<"[">> \o join(",", Reverse([i \in 1..Len(subscript) |-> str_int(subscript[i])]))
        \o <<"]">>

\* The Cartesian product of range(d) over the dimensions of a shape.
Subscripts(s) ==
    IF Len(s) = 1 THEN {<<i>> : i \in 0..(s[1] - 1)}
    ELSE IF Len(s) = 2 THEN {<<i, j>> : i \in 0..(s[1] - 1), j \in 0..(s[2] - 1)}
    ELSE {<<i, j, k>> : i \in 0..(s[1] - 1), j \in 0..(s[2] - 1), k \in 0..(s[3] - 1)}

\* The subscripts of the k-th generated element (from 0) when the
\* least-significant dimension varies fastest.
NthSubscript(s, k) ==
    [i \in 1..Len(s) |-> (k \div Prod(SubSeq(s, 1, i - 1))) % s[i]]

\* C10: after resize(shape), the array's elements carry exactly the
\* subscripts of the Cartesian product of range(d) over the new dimensions:
\* product(shape) elements, no duplicate and no missing Index, each Index
\* written most-significant-first, and the elements are generated in an
\* order in which the least-significant dimension varies fastest.
C10_ResizeIndices ==
    (last.op = "SetShape" /\ last.err = "none") =>
        \A s \in {ShapeOf(last.val)} :
            /\ Len(xml.Elements) = Prod(s)
            /\ \A i, j \in 1..Len(xml.Elements) :
                 xml.Elements[i].Index = xml.Elements[j].Index => i = j
            /\ {xml.Elements[i].Index : i \in 1..Len(xml.Elements)}
                   = {IndexOf(a) : a \in Subscripts(s)}
            /\ \A k \in 1..Len(xml.Elements) :
                 xml.Elements[k].Index = IndexOf(NthSubscript(s, k - 1))

\* An array of shape (3,) was resized to (2, 3): six elements, from [0,0]
\* and [0,1] to [2,1].
C10_Witness ==
    /\ last.op = "SetShape" /\ last.err = "none"
    /\ ArrayShape_get(last.pre).value = <<3>>
    /\ last.val = PTuple(<<PIdx(2), PIdx(3)>>)
    /\ [k \in 1..Len(xml.Elements) |-> xml.Elements[k].Index]
           = << <<"[", "0", ",", "0", "]">>, <<"[", "0", ",", "1", "]">>,
                <<"[", "1", ",", "0", "]">>, <<"[", "1", ",", "1", "]">>,
                <<"[", "2", ",", "0", "]">>, <<"[", "2", ",", "1", "]">> >>

\* C11: resize validates the entire target shape before mutating anything:
\* assigning a shape that is not a tuple, has 0 or more than 3 dimensions,
\* contains a non-integer dimension or a dimension < 1 raises TypeError or
\* ValueError and leaves the array's shape, both Dimensions attributes, its
\* elements and the tag's Data elements unchanged.
C11_InvalidShapeRejected ==
    (last.op = "SetShape" /\ last.pre.tag = "Array" /\ ~ValidShape(last.val)) =>
        /\ last.err \in {"TypeError", "ValueError"}
        /\ xml = last.pre
        /\ ArrayShape_get(xml) = ArrayShape_get(last.pre)

(***************************************************************************)
(* l5x/tag.py: structures of the decorated data. The document part of a    *)
(* structure is its member elements, each with a Name, a DataType and a    *)
(* Value attribute, and the Data children of the Tag element.              *)
(***************************************************************************)
PKey(name) == [t |-> "str", v |-> name]

PDict(items) == [t |-> "dict", v |-> items]

PTrue == [t |-> "bool", v |-> 1]

\* value_min and value_max of tag.SINT, tag.INT, tag.DINT and tag.BOOL.
tag_value_min(t) ==
    IF t = "SINT" THEN -128
    ELSE IF t = "INT" THEN -32768
    ELSE IF t = "DINT" THEN -2147483647 - 1
    ELSE 0

tag_value_max(t) ==
    IF t = "SINT" THEN 127
    ELSE IF t = "INT" THEN 32767
    ELSE IF t = "DINT" THEN 2147483647
    ELSE 1

\* tag.IntegerValue.__get__ of a member
tag_IntegerValue_get(member) == int_of_str(member.Value)

\* tag.IntegerValue.__set__ of member i of a structure: a bool is refused as
\* a non-integer.
tag_IntegerValue_set(x, i, value) ==
    IF value.t # "int" THEN [xml |-> x, err |-> "TypeError"]
    ELSE IF value.v < tag_value_min(x.Members[i].DataType)
            \/ value.v > tag_value_max(x.Members[i].DataType)
    THEN [xml |-> x, err |-> "ValueError"]
    ELSE [xml |-> [x EXCEPT !.Members[i].Value = str_int(value.v),
                            !.Data = clear_raw_data(x.Data)],
          err |-> "none"]

\* A bug: every name is looked up as the first member.
Structure_getitem_first(x, member) ==
    IF member.t # "str" THEN [err |-> "TypeError", i |-> 0]
    ELSE IF \A i \in 1..Len(x.Members) : x.Members[i].Name # member.v
    THEN [err |-> "KeyError", i |-> 0]
    ELSE [err |-> "none", i |-> 1]

\* Structure.__getitem__: the position of the member of a name.
Structure_getitem(x, member) ==
    IF member.t # "str" THEN [err |-> "TypeError", i |-> 0]
    ELSE IF \A i \in 1..Len(x.Members) : x.Members[i].Name # member.v
    THEN [err |-> "KeyError", i |-> 0]
    ELSE [err |-> "none",
          i |-> CHOOSE i \in 1..Len(x.Members) : x.Members[i].Name = member.v]

\* struct[member].value = value
Member_set(x, member, value) ==
    IF Structure_getitem(x, member).err # "none"
    THEN [xml |-> x, err |-> Structure_getitem(x, member).err]
    ELSE tag_IntegerValue_set(x, Structure_getitem(x, member).i, value)

\* StructureValue.__set__: the keys are taken in the order of the
\* dictionary, each member is written at its turn.
RECURSIVE StructureValue_set_from(_, _, _)
StructureValue_set_from(x, items, k) ==
    IF k > Len(items) THEN [xml |-> [x EXCEPT !.Data = clear_raw_data(x.Data)], err |-> "none"]
    ELSE IF Member_set(x, items[k].key, items[k].value).err # "none"
    THEN [xml |-> x, err |-> Member_set(x, items[k].key, items[k].value).err]
    ELSE StructureValue_set_from(Member_set(x, items[k].key, items[k].value).xml, items, k + 1)

StructureValue_set(x, value) ==
    IF value.t # "dict" THEN [xml |-> x, err |-> "TypeError"]
    ELSE StructureValue_set_from(x, value.v, 1)

\* StructureValue.__get__: the value of every member, by name.
StructureValue_get(x) ==
    [i \in 1..Len(x.Members) |->
        [key |-> PKey(x.Members[i].Name),
         value |-> PIdx(tag_IntegerValue_get(x.Members[i]).value)]]

(***************************************************************************)
(* Value writes to a structure of the decorated data.                      *)
(***************************************************************************)
\* The keys written: the member names, a name of no member and a key that
\* is no string.
StructKeys == {PKey("PRE"), PKey("ACC"), PKey("EN"), PKey("foo"), PIdx(0)}

\* The values written: 1 suits every member, 100 not EN, 200 only PRE.
StructValues == {PIdx(1), PIdx(100), PIdx(200), PIdxStr}

StructDicts ==
    {PDict(items) : items \in
        {d \in UNION {[1..n -> [key : StructKeys, value : StructValues]] : n \in 0..MaxDictLen} :
            \A i, j \in 1..Len(d) : d[i].key = d[j].key => i = j}}

InitStruct ==
    /\ dtype = "TIMER"
    /\ shape = <<>>
    /\ buf = <<>>
    /\ views = {}
    /\ \E data \in {<<"Decorated">>, <<"", "Decorated">>} :
         xml = [tag |-> "Structure",
                Members |-> <<[Name |-> "PRE", DataType |-> "DINT", Value |-> <<"-", "1">>],
                              [Name |-> "ACC", DataType |-> "SINT", Value |-> <<"-", "2">>],
                              [Name |-> "EN", DataType |-> "BOOL", Value |-> <<"0">>]>>,
                Data |-> data]
    /\ last = [op |-> "init", err |-> "none", pre |-> NoXml, val |-> PStr, key |-> PIdx(0)]
    /\ ops = 0

\* tag.value = value
StructWrite ==
    /\ ops < MaxStructWrites
    /\ \E value \in StructDicts \cup {PIdxStr, PList(<<PIdx(1)>>)} :
         \E r \in {StructureValue_set(xml, value)} :
            /\ xml' = r.xml
            /\ last' = [op |-> "StructWrite", err |-> r.err, pre |-> xml, val |-> value,
                        key |-> PIdx(0)]
    /\ ops' = ops + 1
    /\ UNCHANGED <<dtype, shape, buf, views>>

\* tag[member].value = value
MemberWrite ==
    /\ ops < MaxStructWrites
    /\ \E member \in StructKeys, value \in StructValues \cup {PIdx(-100), PTrue} :
         \E r \in {Member_set(xml, member, value)} :
            /\ xml' = r.xml
            /\ last' = [op |-> "MemberWrite", err |-> r.err, pre |-> xml, val |-> value,
                        key |-> member]
    /\ ops' = ops + 1
    /\ UNCHANGED <<dtype, shape, buf, views>>

NextStruct == StructWrite \/ MemberWrite

SpecStruct == InitStruct /\ [][NextStruct]_vars

\* The names of the members of a structure document.
MemberNames(x) == {x.Members[i].Name : i \in 1..Len(x.Members)}

\* A dictionary whose keys are member names and whose values are integers
\* in the range of their member.
ValidMapping(x, value) ==
    /\ value.t = "dict"
    /\ \A k \in 1..Len(value.v) :
         /\ value.v[k].key.t = "str"
         /\ value.v[k].key.v \in MemberNames(x)
         /\ value.v[k].value.t = "int"
         /\ \A i \in 1..Len(x.Members) :
              x.Members[i].Name = value.v[k].key.v =>
                  /\ value.v[k].value.v >= tag_value_min(x.Members[i].DataType)
                  /\ value.v[k].value.v <= tag_value_max(x.Members[i].DataType)

\* C12: writing a mapping that names only some members of a structure sets
\* exactly the named members to the given values; every member not named in
\* the mapping keeps its previous value.
C12_PartialMapping ==
    (last.op = "StructWrite" /\ ValidMapping(last.pre, last.val)) =>
        /\ last.err = "none"
        /\ \A i \in 1..Len(xml.Members) :
             IF \E k \in 1..Len(last.val.v) : last.val.v[k].key.v = xml.Members[i].Name
             THEN \E k \in 1..Len(last.val.v) :
                     /\ last.val.v[k].key.v = xml.Members[i].Name
                     /\ StructureValue_get(xml)[i].value = last.val.v[k].value
             ELSE StructureValue_get(xml)[i] = StructureValue_get(last.pre)[i]

\* {'ACC': 100} was written to a structure whose PRE had been set to 200: ACC
\* reads 100, PRE still 200 and EN still 0.
C12_Witness ==
    /\ last.op = "StructWrite" /\ last.err = "none"
    /\ last.val = PDict(<<[key |-> PKey("ACC"), value |-> PIdx(100)]>>)
    /\ StructureValue_get(last.pre) =
           <<[key |-> PKey("PRE"), value |-> PIdx(200)],
             [key |-> PKey("ACC"), value |-> PIdx(-2)],
             [key |-> PKey("EN"), value |-> PIdx(0)]>>
    /\ StructureValue_get(xml) =
           <<[key |-> PKey("PRE"), value |-> PIdx(200)],
             [key |-> PKey("ACC"), value |-> PIdx(100)],
             [key |-> PKey("EN"), value |-> PIdx(0)]>>

\* C13: a whole-structure value write is all-or-nothing: whenever assigning
\* a value to a structure raises an error (TypeError for a non-dictionary,
\* KeyError for a key that is not a member name, or a TypeError/ValueError
\* from a member rejecting its value), no member of the structure has been
\* modified.
C13_StructAllOrNothing ==
    (last.op = "StructWrite" /\ last.err # "none") => xml.Members = last.pre.Members

(***************************************************************************)
(* Writes of single elements of integer arrays over filled buffers.        *)
(***************************************************************************)
\* Integers written to elements, given as numbers: around the limits of one
\* and two bytes, and the largest magnitudes of four bytes.
ElemInts ==
    {-2147483647, -32769, -32768, -129, -128, -2, -1, 0, 1, 127, 128, 300, 32767, 32768,
     2147483647}

ElemWriteValues(t) ==
    {PInt(Py(k)) : k \in ElemInts} \cup {PInt(value_min(t)), PInt(value_max(t)), PStr}

InitElems ==
    /\ dtype \in IntegerTypes
    /\ shape \in ArrayShapes
    /\ \E f \in FillBytes : buf = [i \in 1..(Prod(shape) * sizeof(dtype)) |-> f]
    /\ views = {Accessor("Array", View(0, Prod(shape) * sizeof(dtype)), 0, <<>>)}
    /\ last = [op |-> "init", err |-> "none", pre |-> <<>>, val |-> PStr, path |-> <<>>,
               acc |-> NoAcc]
    /\ ops = 0
    /\ xml = NoXml

\* tag[i]..[k].value = value
ElemWrite ==
    /\ ops < MaxElemWrites
    /\ \E p \in ElementPaths, value \in ElemWriteValues(dtype) :
         \E acc \in {getitems(ArrayAccessor, PyPath(p)).acc} :
            \E r \in {Any_set(buf, acc, value)} :
               /\ buf' = r.buf
               /\ last' = [op |-> "ElemWrite", err |-> r.err, pre |-> buf, val |-> value,
                           path |-> PyPath(p), acc |-> acc]
    /\ ops' = ops + 1
    /\ UNCHANGED <<dtype, shape, views, xml>>

\* tag.value, tag[i].value or tag[i][j].value of an array or subarray.
ValueRead ==
    /\ \E p \in ArrayPaths :
         \E acc \in {getitems(ArrayAccessor, PyPath(p)).acc} :
            \E r \in {Any_get(buf, acc)} :
               last' = [op |-> "ValueRead", err |-> r.err, pre |-> buf, val |-> r.value,
                        path |-> PyPath(p), acc |-> acc]
    /\ UNCHANGED <<dtype, shape, buf, views, ops, xml>>

NextElems == ElemWrite \/ ValueRead

SpecElems == InitElems /\ [][NextElems]_vars

\* ((v mod 2^(8n)) div 2^(8k)) mod 256 for a number v of at most 32 bits and
\* k < n: the floor of v / 2^(8k), mod 256; from byte 4 on, the sign.
ByteOfInt(v, k) ==
    IF k < 4 THEN (v \div (256 ^ k)) % 256 ELSE IF v < 0 THEN 255 ELSE 0

\* C14: integer kinds are stored as little-endian two's-complement values of
\* 1, 2, 4 and 8 bytes: after writing v to an n-byte integer, byte k of its
\* span equals ((v mod 2^(8n)) div 2^(8k)) mod 256 and no byte outside the
\* n-byte span changes; a span whose only set bit is the top bit of its last
\* byte reads as -2^(8n-1).
C14_LittleEndian ==
    /\ (last.op = "ElemWrite" /\ last.err = "none") =>
          \A v \in ElemInts :
             last.val = PInt(Py(v)) =>
                \A i \in 0..(Len(buf) - 1) :
                   IF i >= last.acc.view.off /\ i < last.acc.view.off + sizeof(dtype)
                   THEN buf[i + 1] = ByteOfInt(v, i - last.acc.view.off)
                   ELSE buf[i + 1] = last.pre[i + 1]
    /\ (last.op = "ElemWrite") =>
          \A p \in ElementPaths :
             (\A k \in 1..sizeof(dtype) :
                 buf[ElementView(p).off + k] = (IF k = sizeof(dtype) THEN 128 ELSE 0))
                => Any_get(buf, getitems(ArrayAccessor, PyPath(p)).acc).value
                       = PInt(PyNeg(PyPow2(8 * sizeof(dtype) - 1)))

\* -32768 was written to the second element of an INT array over A5 bytes:
\* the buffer is A5 A5 00 80 and the element reads -32768.
C14_Witness ==
    /\ last.op = "ElemWrite" /\ last.err = "none"
    /\ dtype = "INT" /\ shape = <<2>>
    /\ last.path = PyPath(<<1>>) /\ last.val = PInt(Py(-32768))
    /\ last.pre = <<165, 165, 165, 165>>
    /\ buf = <<165, 165, 0, 128>>
    /\ Any_get(buf, last.acc).value = PInt(Py(-32768))

\* The j-th subscript of a path (from 1) is refused by an array of the
\* current shape: it is no integer, or it is outside [0, shape[n - j]).
BadSubscript(path, j) ==
    \/ path[j].t # "int"
    \/ path[j].v < 0
    \/ path[j].v >= shape[Len(shape) - j + 1]

\* C15: each subscript applied to an n-dimensional array is checked against
\* the dimension it addresses, most-significant first: the first subscript
\* must lie in [0, shape[n-1]), the second in [0, shape[n-2]) and the third
\* in [0, shape[0]); an integer outside its range, including any negative
\* integer, raises IndexError and a non-integer raises TypeError, at every
\* subscript depth.
C15_SubscriptChecks ==
    (last.op = "Index" /\ Len(last.path) <= Len(shape)) =>
        IF \A j \in 1..Len(last.path) : ~BadSubscript(last.path, j)
        THEN last.err = "none"
        ELSE \E j \in 1..Len(last.path) :
                /\ BadSubscript(last.path, j)
                /\ \A i \in 1..(j - 1) : ~BadSubscript(last.path, i)
                /\ last.err = (IF last.path[j].t # "int" THEN "TypeError" ELSE "IndexError")

\* In an array of shape (1, 2, 3), a[2][1] is reached and a[2][1][1] raises
\* IndexError: the third subscript addresses shape[0] = 1.
C15_Witness ==
    /\ last.op = "Index" /\ shape = <<1, 2, 3>>
    /\ last.path = PyPath(<<2, 1, 1>>)
    /\ last.err = "IndexError"
    /\ getitems(ArrayAccessor, PyPath(<<2, 1>>)).err = "none"

\* A value assigned to an array with a number of subscripts still open is
\* not a list, or holds, where a list is needed, an entry that is not one.
RECURSIVE HasNonList(_, _)
HasNonList(value, open) ==
    \/ value.t # "list"
    \/ open > 1 /\ \E i \in 1..Len(value.v) : HasNonList(value.v[i], open - 1)

\* A list, at any nesting level, is longer than the dimension it targets.
RECURSIVE HasTooLong(_, _)
HasTooLong(value, open) ==
    /\ value.t = "list"
    /\ \/ Len(value.v) > shape[open]
       \/ open > 1 /\ \E i \in 1..Len(value.v) : HasTooLong(value.v[i], open - 1)

\* The subscripts still open below the accessor last written through.
OpenDims == Len(shape) - Len(last.path)

\* C16 as stated: assigning to an array's value raises TypeError when the
\* value, or for a multi-dimensional array any nested entry that must itself
\* be a list, is not a list, and raises IndexError when a list at any nesting
\* level is longer than the dimension it targets.
C16_AnyDefect ==
    (last.op = "Write" /\ last.acc.kind = "Array") =>
        /\ HasNonList(last.val, OpenDims) => last.err = "TypeError"
        /\ HasTooLong(last.val, OpenDims) => last.err = "IndexError"

\* The error of the first defect met when a value is assigned: the value is
\* checked, then its entries in order, each nested list when its turn comes
\* and each element by its own validation.
RECURSIVE FirstDefect(_, _), FirstDefectFrom(_, _, _)
FirstDefectFrom(items, open, i) ==
    IF i > Len(items) THEN "none"
    ELSE IF open = 1 /\ IntegerValue_validate(dtype, items[i]) # "none"
    THEN IntegerValue_validate(dtype, items[i])
    ELSE IF open > 1 /\ FirstDefect(items[i], open - 1) # "none"
    THEN FirstDefect(items[i], open - 1)
    ELSE FirstDefectFrom(items, open, i + 1)

FirstDefect(value, open) ==
    IF value.t # "list" THEN "TypeError"
    ELSE IF Len(value.v) > shape[open] THEN "IndexError"
    ELSE FirstDefectFrom(value.v, open, 1)

\* C16, amended: the value is checked and its entries are assigned in order;
\* the error raised is that of the first defect met: TypeError for a value
\* or a nested entry that is not a list, IndexError for a list longer than
\* the dimension it targets, the element's own error for a rejected element.
C16_FirstDefect ==
    (last.op = "Write" /\ last.acc.kind = "Array") =>
        last.err = FirstDefect(last.val, OpenDims)

\* [[-2, -2], [-2, -2, -2]] was assigned to an array of shape (2, 2): the
\* second row is too long and IndexError is raised.
C16_Witness ==
    /\ last.op = "Write" /\ last.acc.kind = "Array" /\ last.path = <<>>
    /\ shape = <<2, 2>>
    /\ last.val = PList(<<Good1, Long1>>)
    /\ HasTooLong(last.val, 2) /\ ~HasNonList(last.val, 2)
    /\ last.err = "IndexError"

\* The dimension a list assigned through the accessor last written targets.
TargetDim == shape[which_dim(last.acc) + 1]

\* What accessor[i].value reads in a buffer, for the accessor last written.
EntryValue(b, i) == Any_get(b, Base_getitem(last.acc, PIdx(i)).acc).value

\* The bytes entry i of the accessor last written stands on.
EntryBytes(b, i) ==
    LET v == Base_getitem(last.acc, PIdx(i)).acc.view
    IN [k \in 1..v.len |-> b[v.off + k]]

\* C17: setting an array's value to a list with fewer entries than the
\* target dimension starts overwriting at the beginning: elements 0..len-1
\* take the list's values and every element at index >= len keeps the value
\* it had before the write.
C17_ShortList ==
    (/\ last.op = "Write" /\ last.acc.kind = "Array"
     /\ last.val.t = "list" /\ Len(last.val.v) < TargetDim) =>
        /\ \A i \in Len(last.val.v)..(TargetDim - 1) :
             /\ EntryValue(buf, i) = EntryValue(last.pre, i)
             /\ EntryBytes(buf, i) = EntryBytes(last.pre, i)
        /\ last.err = "none" =>
             \A i \in 0..(Len(last.val.v) - 1) :
                StartsWith(EntryValue(buf, i), last.val.v[i + 1])

\* [-2] was assigned to an INT array of two elements that read 0xA5A5:
\* element 0 reads -2 and element 1 still reads 0xA5A5.
C17_Witness ==
    /\ last.op = "Write" /\ last.err = "none" /\ last.path = <<>>
    /\ dtype = "INT" /\ shape = <<2>>
    /\ last.val = PList(<<PInt(Py(-2))>>)
    /\ last.pre = <<165, 165, 165, 165>>
    /\ buf = <<254, 255, 165, 165>>
    /\ EntryValue(buf, 0) = PInt(Py(-2))
    /\ EntryValue(buf, 1) = PInt(Py(-23131))

\* Nested lists over the open dimensions, most-significant outermost:
\* lengths shape[open], ..., shape[1], with integers at the bottom.
RECURSIVE NestedLists(_, _)
NestedLists(value, open) ==
    /\ value.t = "list"
    /\ Len(value.v) = shape[open]
    /\ \A i \in 1..Len(value.v) :
         IF open > 1 THEN NestedLists(value.v[i], open - 1) ELSE value.v[i].t = "int"

\* value[q[1]][q[2]]... of a nested list.
RECURSIVE Nth(_, _)
Nth(value, q) ==
    IF q = <<>> THEN value ELSE Nth(value.v[Head(q) + 1], Tail(q))

\* C18: reading the value of an n-dimensional array returns nested lists,
\* outermost along the most-significant dimension, with list lengths
\* shape[n-1], ..., shape[0], such that value[k][j][i] equals the value read
\* from the element accessor a[k][j][i]; reading the value of a subarray
\* returns the corresponding inner list.
C18_NestedValue ==
    (last.op = "ValueRead") =>
        /\ last.err = "none"
        /\ NestedLists(last.val, Len(shape) - Len(last.path))
        /\ \A p \in ElementPaths :
             /\ last.path = <<>> =>
                  Nth(last.val, p)
                      = Any_get(buf, getitems(ArrayAccessor, PyPath(p)).acc).value
             /\ \A k \in 1..(Len(shape) - 1) :
                  last.path = PyPath(SubSeq(p, 1, k)) =>
                     /\ Nth(last.val, SubSeq(p, k + 1, Len(p)))
                            = Any_get(buf, getitems(last.acc, PyPath(SubSeq(p, k + 1, Len(p)))).acc).value
                     /\ last.val = Nth(Any_get(buf, ArrayAccessor).value, SubSeq(p, 1, k))

\* The value of a (d0, d1) = (2, 1) SINT array was read after 127 was written
\* to a[0][1] over zeros: it is [[0, 127]], one list of two elements.
C18_Witness ==
    /\ last.op = "ValueRead" /\ last.path = <<>>
    /\ dtype = "SINT" /\ shape = <<2, 1>>
    /\ buf = <<0, 127>>
    /\ last.val = PList(<<PList(<<PInt(Py(0)), PInt(Py(127))>>)>>)
    /\ Len(last.val.v) = shape[2] /\ Len(last.val.v[1].v) = shape[1]

(***************************************************************************)
(* Raw size of an array that is a member of a structure (l5x/array.py).    *)
(* The array class is defined over the element that declares the member;   *)
(* its dimensions are read from the element's attribute.                   *)
(***************************************************************************)
\* str.split(): the words between runs of whitespace.
RECURSIVE split_whitespace(_)
split_whitespace(s) ==
    IF s = <<>> THEN <<>>
    ELSE IF Head(s) = " " THEN split_whitespace(Tail(s))
    ELSE LET n == IF \A i \in 1..Len(s) : s[i] # " " THEN Len(s)
                  ELSE (CHOOSE i \in 1..Len(s) :
                           s[i] = " " /\ \A j \in 1..(i - 1) : s[j] # " ") - 1
         IN <<SubSeq(s, 1, n)>> \o split_whitespace(SubSeq(s, n + 1, Len(s)))

\* Base.get_dim: the dimensions of the element, Dim0 first.
get_dim(element) ==
    LET attrib == IF "Dimensions" \in DOMAIN element THEN element.Dimensions
                  ELSE element.Dimension
        words == split_whitespace(attrib)
    IN Reverse([i \in 1..Len(words) |-> int_of_str(words[i]).value])

\* functools.reduce(operator.mul, dim, initial)
RECURSIVE reduce_mul(_, _)
reduce_mul(dim, initial) ==
    IF dim = <<>> THEN initial ELSE reduce_mul(Tail(dim), initial * Head(dim))

\* A bug: four bytes are added to a size that needs no padding.
RawSize_get_always_pads(element, t) ==
    LET data_size == reduce_mul(get_dim(element), raw_size(t))
        tail_pad == 4 - (data_size % 4)
    IN data_size + tail_pad

\* RawSize.__get__
RawSize_get(element, t) ==
    LET data_size == reduce_mul(get_dim(element), raw_size(t))
        tail_pad == (4 - (data_size % 4)) % 4
    IN data_size + tail_pad

RawShapes ==
    {sh \in UNION {[1..k -> 1..MaxRawDim] : k \in 1..3} : Prod(sh) <= MaxRawElems}

\* The attribute a document gives the dimensions in, most-significant first.
DimensionsAttr(sh) ==
    join(" ", Reverse([i \in 1..Len(sh) |-> str_int(sh[i])]))

\* The element of a member: a structure member array has one dimension
\* given as Dimension; Dimensions is what a tag carries.
InitRawSize ==
    /\ dtype \in IntegerTypes
    /\ shape \in RawShapes
    /\ \/ xml = [tag |-> "Member", Dimensions |-> DimensionsAttr(shape)]
       \/ Len(shape) = 1 /\ xml = [tag |-> "Member", Dimension |-> DimensionsAttr(shape)]
    /\ buf = <<>>
    /\ views = {}
    /\ last = [op |-> "init", err |-> "none", pre |-> NoXml, val |-> 0]
    /\ ops = 0

\* cls.raw_size, as read when the structure's layout is computed.
RawSizeRead ==
    /\ last.op = "init"
    /\ last' = [op |-> "RawSize", err |-> "none", pre |-> xml,
                val |-> RawSize_get(xml, dtype)]
    /\ UNCHANGED <<dtype, shape, buf, views, ops, xml>>

NextRawSize == RawSizeRead

SpecRawSize == InitRawSize /\ [][NextRawSize]_vars

\* C19: the raw footprint of a non-BOOL array embedded in a composite is
\* product(dims) * element_size rounded up to the next multiple of 4: it is
\* always a multiple of 4, never smaller than the data size and exceeds it
\* by fewer than 4 bytes (1-byte elements with lengths 5 to 8 give 8, length
\* 9 gives 12).
C19_RawSize ==
    (last.op = "RawSize") =>
        /\ last.val % 4 = 0
        /\ last.val >= Prod(shape) * sizeof(dtype)
        /\ last.val < Prod(shape) * sizeof(dtype) + 4
        /\ (dtype = "SINT" /\ Len(shape) = 1 /\ shape[1] \in 5..8) => last.val = 8
        /\ (dtype = "SINT" /\ shape = <<9>>) => last.val = 12

\* The raw size of a member of 3 x 3 INT elements, 18 bytes of data, is 20.
C19_Witness ==
    /\ last.op = "RawSize"
    /\ dtype = "INT" /\ shape = <<3, 3>>
    /\ xml.Dimensions = <<"3", " ", "3">>
    /\ last.val = 20

(***************************************************************************)
(* Operands: the string that identifies an accessor to the comments of a   *)
(* tag. Raw arrays (l5x/array.py) build it from the subscripts; decorated  *)
(* arrays (l5x/tag.py) from the Index attribute of the element.            *)
(***************************************************************************)
LowerChars ==
    <<"a", "b", "c", "d", "e", "f", "g", "h", "i", "j", "k", "l", "m",
      "n", "o", "p", "q", "r", "s", "t", "u", "v", "w", "x", "y", "z">>

UpperChars ==
    <<"A", "B", "C", "D", "E", "F", "G", "H", "I", "J", "K", "L", "M",
      "N", "O", "P", "Q", "R", "S", "T", "U", "V", "W", "X", "Y", "Z">>

\* str.upper()
upper(s) ==
    [i \in 1..Len(s) |->
        IF \E k \in 1..26 : LowerChars[k] = s[i]
        THEN UpperChars[CHOOSE k \in 1..26 : LowerChars[k] = s[i]]
        ELSE s[i]]

\* Data.build_operand: parent is "none" or the operand of the parent.
build_operand(parent, element) ==
    IF parent = "none" THEN <<>>
    ELSE IF "Index" \in DOMAIN element THEN parent \o upper(element.Index)
    ELSE parent \o <<".">> \o upper(element.Name)

\* Base.get_operand: the operand of the accessor and one bracket group of
\* the subscripts applied so far and the given one.
get_operand(operand, acc, index) ==
    operand \o <<"[">>
        \o join(",", [i \in 1..(Len(acc.path) + 1) |->
                         str_int(Append(Reverse(subarray_dim(acc)), index)[i])])
        \o <<"]">>

\* tag.Member.__init__ keeps the operand the accessor is made with.
Member_init(operand) == operand

\* array[p1][p2]..., raw: every accessor on the way, subarray or member, is
\* made with the operand get_operand returns for its subscript.
RECURSIVE getitems_operand(_, _, _)
getitems_operand(acc, operand, path) ==
    IF path = <<>> THEN operand
    ELSE getitems_operand(Base_getitem(acc, Head(path)).acc,
                          Member_init(get_operand(operand, acc, Head(path).v)),
                          Tail(path))

\* ElementDict.__getitem__: the child element with a given Index.
ElementDict_getitem(x, key) ==
    IF \A i \in 1..Len(x.Elements) : x.Elements[i].Index # key
    THEN [err |-> "KeyError", element |-> [Index |-> <<>>]]
    ELSE [err |-> "none",
          element |-> x.Elements[CHOOSE i \in 1..Len(x.Elements) : x.Elements[i].Index = key]]

\* tag.Array.__getitem__, decorated: a member is made from the element of
\* the full address with the array as parent; a subarray is made from the
\* array's own element and parent and so has the array's operand.
RECURSIVE tag_Array_getitems(_, _, _, _)
tag_Array_getitems(x, operand, address, path) ==
    IF path = <<>> THEN [err |-> "none", operand |-> operand]
    ELSE LET new_address == <<Head(path)>> \o address
             key == <<"[">>
                    \o join(",", [i \in 1..Len(new_address) |->
                                     str_int(Reverse(new_address)[i])])
                    \o <<"]">>
         IN IF Len(new_address) = Len(ArrayShape_get(x).value)
            THEN IF ElementDict_getitem(x, key).err # "none"
                 THEN [err |-> "KeyError", operand |-> <<>>]
                 ELSE [err |-> "none",
                       operand |-> build_operand(operand, ElementDict_getitem(x, key).element)]
            ELSE tag_Array_getitems(x, operand, new_address, Tail(path))

\* The operand of the array itself: a tag has no parent, an array that is a
\* member of a structure is named after the member.
ArrayOperands ==
    {build_operand("none", [Name |-> <<"a", "r", "r">>]),
     build_operand(<<>>, [Name |-> <<"a", "r", "r">>])}

InitOperand ==
    /\ dtype = "DINT"
    /\ shape \in LayoutShapes
    /\ buf = [i \in 1..(Prod(shape) * sizeof(dtype)) |-> 0]
    /\ views = {}
    /\ xml = ArrayDocument("Array", shape, <<"Decorated">>)
    /\ \E P \in ArrayOperands :
          last = [op |-> "init", err |-> "none", P |-> P, path |-> <<>>, operand |-> P]
    /\ ops = 0

\* tag[k][j][i].operand of a raw array
OperandRaw ==
    /\ \E p \in ElementPaths :
          last' = [op |-> "OperandRaw", err |-> "none", P |-> last.P, path |-> p,
                   operand |-> getitems_operand(ArrayAccessor, last.P, PyPath(p))]
    /\ UNCHANGED <<dtype, shape, buf, views, ops, xml>>

\* tag[k][j][i].operand of a decorated array
OperandDecorated ==
    /\ \E p \in ElementPaths :
          \E r \in {tag_Array_getitems(xml, last.P, <<>>, p)} :
             last' = [op |-> "OperandDecorated", err |-> r.err, P |-> last.P, path |-> p,
                      operand |-> r.operand]
    /\ UNCHANGED <<dtype, shape, buf, views, ops, xml>>

NextOperand == OperandRaw \/ OperandDecorated

SpecOperand == InitOperand /\ [][NextOperand]_vars

\* P[i], P[i,j] or P[i,j,k]: one bracket group of the subscripts in the
\* order they were applied.
RECURSIVE Listed(_)
Listed(p) ==
    IF Len(p) = 1 THEN str_int(p[1]) ELSE str_int(Head(p)) \o <<",">> \o Listed(Tail(p))

OneGroup(P, p) == P \o <<"[">> \o Listed(p) \o <<"]">>

\* C20: for an array whose operand is P, the element accessor reached by
\* applying subscripts in order (most-significant first) has operand P
\* followed by exactly one bracket group that lists every applied subscript
\* once, in most-significant-first order and with no separator before the
\* bracket: P[i] for one dimension, P[i,j] for two, P[i,j,k] for three.
C20_OneBracketGroup ==
    (last.op \in {"OperandRaw", "OperandDecorated"}) =>
        /\ last.err = "none"
        /\ last.operand = OneGroup(last.P, last.path)

\* The same for the elements of decorated arrays and of raw arrays of one
\* dimension only.
C20_DecoratedOrOneDim ==
    (\/ last.op = "OperandDecorated"
     \/ last.op = "OperandRaw" /\ Len(shape) = 1) =>
        /\ last.err = "none"
        /\ last.operand = OneGroup(last.P, last.path)

\* A raw array of more dimensions gives its element one bracket group per
\* subscript, each listing the subscripts applied up to it.
RECURSIVE Groups(_, _)
Groups(p, k) ==
    IF k > Len(p) THEN <<>>
    ELSE <<"[">> \o Listed(SubSeq(p, 1, k)) \o <<"]">> \o Groups(p, k + 1)

C20_RawGroups ==
    (last.op = "OperandRaw") => last.operand = last.P \o Groups(last.path, 1)

\* Element [1][2] of a raw array ARR of two dimensions has the operand
\* .ARR[1][1,2]; the decorated element has .ARR[1,2].
C20_RawWitness ==
    /\ last.op = "OperandRaw" /\ last.path = <<1, 2>>
    /\ last.operand = <<".", "A", "R", "R", "[", "1", "]", "[", "1", ",", "2", "]">>

C20_DecoratedWitness ==
    /\ last.op = "OperandDecorated" /\ last.path = <<1, 2>>
    /\ last.operand = <<".", "A", "R", "R", "[", "1", ",", "2", "]">>

(***************************************************************************)
(* Raw tag data (l5x/project.py, TagData). The tag element holds Data      *)
(* elements: the raw one has no Format attribute and its text is the data  *)
(* in hexadecimal. The bytearray made from it is buf; views tells whether  *)
(* the TagData object holds it already (its data attribute).               *)
(***************************************************************************)
HexChars ==
    <<"0", "1", "2", "3", "4", "5", "6", "7", "8", "9", "a", "b", "c", "d", "e", "f">>

Whitespace == {" ", "\t", "\n", "\r"}

IsHex(c) == \E k \in 1..16 : HexChars[k] = c \/ upper(<<HexChars[k]>>)[1] = c

HexValue(c) == (CHOOSE k \in 1..16 : HexChars[k] = c \/ upper(<<HexChars[k]>>)[1] = c) - 1

\* bytearray.fromhex: pairs of hexadecimal digits, whitespace between the
\* pairs is skipped.
RECURSIVE fromhex(_)
fromhex(text) ==
    IF text = <<>> THEN [err |-> "none", value |-> <<>>]
    ELSE IF Head(text) \in Whitespace THEN fromhex(Tail(text))
    ELSE IF Len(text) < 2 \/ ~IsHex(text[1]) \/ ~IsHex(text[2])
    THEN [err |-> "ValueError", value |-> <<>>]
    ELSE LET rest == fromhex(SubSeq(text, 3, Len(text)))
         IN IF rest.err # "none" THEN rest
            ELSE [err |-> "none",
                  value |-> <<16 * HexValue(text[1]) + HexValue(text[2])>> \o rest.value]

\* A bug: the digits of a byte are written low nibble first.
bytes_hex_swapped(data, sep) ==
    join(sep, [i \in 1..Len(data) |->
                  <<HexChars[(data[i] % 16) + 1], HexChars[(data[i] \div 16) + 1]>>])

\* bytes.hex(sep)
bytes_hex(data, sep) ==
    join(sep, [i \in 1..Len(data) |->
                  <<HexChars[(data[i] \div 16) + 1], HexChars[(data[i] % 16) + 1]>>])

\* TagData._get_data_element: the first Data element, which must be raw.
get_data_element(x) ==
    IF x.DataElements = <<>> \/ "Format" \in DOMAIN x.DataElements[1]
    THEN [err |-> "InvalidFile", i |-> 0]
    ELSE [err |-> "none", i |-> 1]

\* TagData._parse_data
parse_data(x) ==
    IF get_data_element(x).err # "none"
    THEN [err |-> get_data_element(x).err, value |-> <<>>]
    ELSE fromhex(x.DataElements[get_data_element(x).i].text)

\* TagData._data_has_changed
data_has_changed(x, data) == parse_data(x).value # data

\* TagData._write_data
write_data(x, data) ==
    [x EXCEPT !.DataElements[get_data_element(x).i].text = upper(bytes_hex(data, " "))]

\* A bug: only the first formatted element is removed.
remove_formatted_data_first(x) ==
    [x EXCEPT !.DataElements =
        IF \A i \in 1..Len(@) : "Format" \notin DOMAIN @[i] THEN @
        ELSE LET k == CHOOSE i \in 1..Len(@) :
                         /\ "Format" \in DOMAIN @[i]
                         /\ \A j \in 1..(i - 1) : "Format" \notin DOMAIN @[j]
             IN SubSeq(@, 1, k - 1) \o SubSeq(@, k + 1, Len(@))]

\* TagData._remove_formatted_data
remove_formatted_data(x) ==
    [x EXCEPT !.DataElements = SelectSeq(@, LAMBDA e : "Format" \notin DOMAIN e)]

\* A bug: the bytearray is written back whether it changed or not.
flush_always_writes(x, held, data) ==
    IF ~held THEN x ELSE remove_formatted_data(write_data(x, data))

\* TagData.flush, for an object that holds (held) or does not hold the
\* bytearray.
flush(x, held, data) ==
    IF ~held THEN x
    ELSE IF data_has_changed(x, data) THEN remove_formatted_data(write_data(x, data))
    ELSE x

\* Byte values of the raw data of a document.
RawByteSamples == {0, 10, 171}

RawDataSamples == UNION {[1..n -> RawByteSamples] : n \in 0..MaxRawBytes}

\* The ways a document writes its raw data: either case, any whitespace
\* between the bytes or none, whitespace around the text.
RawTexts(data) ==
    {bytes_hex(data, " "), upper(bytes_hex(data, " ")), upper(bytes_hex(data, "\n")),
     <<"\n">> \o bytes_hex(data, "\t") \o <<"\n">>}

FormattedData ==
    {<<>>, <<[Format |-> "Decorated", text |-> <<>>]>>,
     <<[Format |-> "L5K", text |-> <<>>], [Format |-> "Decorated", text |-> <<>>]>>}

HasData == views # {}

InitFlush ==
    /\ dtype = "DINT"
    /\ shape = <<>>
    /\ buf = <<>>
    /\ views = {}
    /\ \/ \E data \in RawDataSamples, f \in FormattedData :
            \E t \in RawTexts(data) :
               xml = [tag |-> "Tag", DataElements |-> <<[text |-> t]>> \o f]
       \/ xml = [tag |-> "Tag",
                 DataElements |-> <<[Format |-> "Decorated", text |-> <<>>],
                                    [text |-> <<"0", "0">>]>>]
    /\ last = [op |-> "init", err |-> "none", pre |-> NoXml, held |-> FALSE, data |-> <<>>,
               prev |-> "init"]
    /\ ops = 0

\* TagData.get_data
GetData ==
    /\ last.op # "GetData"
    /\ \E r \in {parse_data(xml)} :
         /\ buf' = IF ~HasData /\ r.err = "none" THEN r.value ELSE buf
         /\ views' = IF r.err = "none" THEN {"data"} ELSE views
         /\ last' = [op |-> "GetData", err |-> IF HasData THEN "none" ELSE r.err,
                     pre |-> xml, held |-> HasData, data |-> buf,
                prev |-> last.op]
    /\ UNCHANGED <<dtype, shape, ops, xml>>

\* data[i] = v, data.append(v), del data[i] on the bytearray get_data gave.
Modify ==
    /\ HasData
    /\ ops < MaxModifies
    /\ \/ \E i \in 1..Len(buf), v \in {0, 42, 255} :
            v # buf[i] /\ buf' = [buf EXCEPT ![i] = v]
       \/ \E v \in {0, 100} : buf' = Append(buf, v)
       \/ \E i \in 1..Len(buf) : buf' = SubSeq(buf, 1, i - 1) \o SubSeq(buf, i + 1, Len(buf))
    /\ ops' = ops + 1
    /\ last' = [op |-> "Modify", err |-> "none", pre |-> xml, held |-> HasData, data |-> buf,
                prev |-> last.op]
    /\ UNCHANGED <<dtype, shape, views, xml>>

\* TagData.flush
Flush ==
    /\ xml' = flush(xml, HasData, buf)
    /\ last' = [op |-> "Flush", err |-> "none", pre |-> xml, held |-> HasData, data |-> buf,
                prev |-> last.op]
    /\ UNCHANGED <<dtype, shape, buf, views, ops>>

NextFlush == GetData \/ Modify \/ Flush

SpecFlush == InitFlush /\ [][NextFlush]_vars

\* Two upper-case hexadecimal digits per byte, one space between bytes.
UpperHexDigits ==
    <<"0", "1", "2", "3", "4", "5", "6", "7", "8", "9", "A", "B", "C", "D", "E", "F">>

IsHexText(t, n) ==
    /\ Len(t) = (IF n = 0 THEN 0 ELSE 3 * n - 1)
    /\ \A i \in 1..Len(t) :
         IF i % 3 = 0 THEN t[i] = " " ELSE \E k \in 1..16 : UpperHexDigits[k] = t[i]

\* The byte that the digits at pair k of a text of that form stand for.
PairValue(t, k) ==
    16 * ((CHOOSE d \in 1..16 : UpperHexDigits[d] = t[3 * k - 2]) - 1)
        + (CHOOSE d \in 1..16 : UpperHexDigits[d] = t[3 * k - 1]) - 1

\* C21: after a tag's bytearray has been obtained with get_data and modified
\* in any way (a byte changed, bytes appended or bytes removed), flush
\* rewrites the raw Data element so that its text decodes to exactly the
\* current bytearray, written as space-separated upper-case hexadecimal byte
\* pairs, and removes every Data element that has a Format attribute. The
\* bytearray counts as modified when it differs from what the raw Data text
\* held before the flush.
C21_FlushWrites ==
    (/\ last.op = "Flush" /\ last.held
     /\ buf # fromhex(last.pre.DataElements[1].text).value) =>
        /\ "Format" \notin DOMAIN xml.DataElements[1]
        /\ IsHexText(xml.DataElements[1].text, Len(buf))
        /\ \A k \in 1..Len(buf) : PairValue(xml.DataElements[1].text, k) = buf[k]
        /\ fromhex(xml.DataElements[1].text) = [err |-> "none", value |-> buf]
        /\ \A i \in 1..Len(xml.DataElements) : "Format" \notin DOMAIN xml.DataElements[i]
        /\ Len(xml.DataElements) = 1

\* The raw data ab 0a, with L5K and Decorated data beside it, was read, its
\* first byte set to 42 and a byte 100 appended: the flush wrote "2A 0A 64"
\* and removed the formatted data.
C21_Witness ==
    /\ last.op = "Flush" /\ last.held
    /\ Len(last.pre.DataElements) = 3
    /\ last.pre.DataElements[1].text = <<"a", "b", " ", "0", "a">>
    /\ buf = <<42, 10, 100>>
    /\ xml.DataElements = <<[text |-> <<"2", "A", " ", "0", "A", " ", "6", "4">>]>>

\* C29: the XML content is only updated if the bytearray was modified: a
\* flush when get_data was never called, or when the bytearray still equals
\* the parsed raw Data text, leaves the raw Data text and every formatted
\* Data element (Decorated, L5K) in place, so a second flush immediately
\* after a flush changes nothing.
C29_NoWrite ==
    (last.op = "Flush") =>
        /\ (\/ ~last.held
            \/ buf = fromhex(last.pre.DataElements[1].text).value) => xml = last.pre
        /\ last.prev = "Flush" => xml = last.pre

\* The raw data "ab 0a" was read, its first byte changed and changed back:
\* the flush left the lower-case text and the L5K and Decorated data.
C29_Witness ==
    /\ last.op = "Flush" /\ last.held /\ ops = 2
    /\ buf = <<171, 10>>
    /\ xml = last.pre
    /\ xml.DataElements = <<[text |-> <<"a", "b", " ", "0", "a">>],
                            [Format |-> "L5K", text |-> <<>>],
                            [Format |-> "Decorated", text |-> <<>>]>>

\* A flush wrote the modified bytearray and the flush after it changed
\* nothing.
C29_SecondFlush ==
    /\ last.op = "Flush" /\ last.prev = "Flush" /\ last.held
    /\ buf = <<42, 10, 100>>
    /\ xml = last.pre
    /\ xml.DataElements = <<[text |-> <<"2", "A", " ", "0", "A", " ", "6", "4">>]>>

(***************************************************************************)
(* A tag of decorated data as an object (l5x/tag.py): the document xml and *)
(* the members dictionary of the tag's array object, which is built when   *)
(* the tag object is made. An entry of it is an element object: live while *)
(* the element is in the document, and with its own Value once the         *)
(* element has been removed from it.                                       *)
(***************************************************************************)
\* ElementDict.__init__: the child elements by their key attribute.
ElementDict_init(x) ==
    {[Index |-> x.Elements[i].Index, Value |-> x.Elements[i].Value, live |-> TRUE] :
        i \in 1..Len(x.Elements)}

\* The position in the document of the element with an Index.
PosOf(x, key) == CHOOSE i \in 1..Len(x.Elements) : x.Elements[i].Index = key

\* The live entries of a dictionary are the elements of the document.
Resync(members, x) ==
    {IF e.live THEN [e EXCEPT !.Value = x.Elements[PosOf(x, e.Index)].Value] ELSE e :
        e \in members}

\* A bug: the array object of the tag looks its members up in the document
\* instead of its own dictionary.
tag_Array_members_fresh(x, members, address) == ElementDict_init(x)

\* self.members of the array object at an address: the tag's own array
\* object keeps the dictionary it was made with, a subarray object is made,
\* with a new dictionary, by the subscript that leads to it.
tag_Array_members(x, members, address) ==
    IF address = <<>> THEN members ELSE ElementDict_init(x)

\* tag.Array.__getitem__, applied along a path of subscripts from the array
\* object at an address. The path holds no more subscripts than the array
\* has dimensions left.
RECURSIVE tag_Array_getitem(_, _, _, _)
tag_Array_getitem(x, members, address, path) ==
    IF path = <<>> THEN [err |-> "none", kind |-> "Array", address |-> address]
    ELSE IF Head(path).t # "int" THEN [err |-> "TypeError", kind |-> "none"]
    ELSE IF \/ Head(path).v < 0
            \/ Head(path).v >= ArrayShape_get(x).value[Len(ArrayShape_get(x).value) - Len(address)]
    THEN [err |-> "IndexError", kind |-> "none"]
    ELSE LET new_address == <<Head(path).v>> \o address
             key == <<"[">>
                    \o join(",", [i \in 1..Len(new_address) |->
                                     str_int(Reverse(new_address)[i])])
                    \o <<"]">>
             dict == tag_Array_members(x, members, address)
         IN IF Len(new_address) # Len(ArrayShape_get(x).value)
            THEN tag_Array_getitem(x, members, new_address, Tail(path))
            ELSE IF \A e \in dict : e.Index # key
            THEN [err |-> "KeyError", kind |-> "none"]
            ELSE [err |-> "none", kind |-> "Element",
                  element |-> CHOOSE e \in dict : e.Index = key]

\* tag.IntegerValue.__set__ of an element object of the array.
element_IntegerValue_set(x, members, element, value) ==
    IF value.t # "int" THEN [xml |-> x, members |-> members, err |-> "TypeError"]
    ELSE IF value.v < tag_value_min(dtype) \/ value.v > tag_value_max(dtype)
    THEN [xml |-> x, members |-> members, err |-> "ValueError"]
    ELSE IF element.live
    THEN LET y == [x EXCEPT !.Elements[PosOf(x, element.Index)].Value = str_int(value.v),
                            !.Data = clear_raw_data(x.Data)]
         IN [xml |-> y, members |-> Resync(members, y), err |-> "none"]
    ELSE [xml |-> [x EXCEPT !.Data = clear_raw_data(x.Data)],
          members |-> {IF e = element THEN [e EXCEPT !.Value = str_int(value.v)] ELSE e :
                          e \in members},
          err |-> "none"]

\* tag.ArrayValue.__set__ of the array object at an address.
RECURSIVE tag_ArrayValue_set(_, _, _, _), tag_ArrayValue_set_from(_, _, _, _, _)
tag_ArrayValue_set_from(x, members, address, items, i) ==
    IF i > Len(items)
    THEN [xml |-> [x EXCEPT !.Data = clear_raw_data(x.Data)], members |-> members,
          err |-> "none"]
    ELSE LET g == tag_Array_getitem(x, members, address, <<PIdx(i - 1)>>)
             r == IF g.err # "none" THEN [xml |-> x, members |-> members, err |-> g.err]
                  ELSE IF g.kind = "Array"
                  THEN tag_ArrayValue_set(x, members, g.address, items[i])
                  ELSE element_IntegerValue_set(x, members, g.element, items[i])
         IN IF r.err # "none" THEN r
            ELSE tag_ArrayValue_set_from(r.xml, r.members, address, items, i + 1)

tag_ArrayValue_set(x, members, address, value) ==
    IF value.t # "list" THEN [xml |-> x, members |-> members, err |-> "TypeError"]
    ELSE IF Len(value.v)
              > ArrayShape_get(x).value[Len(ArrayShape_get(x).value) - Len(address)]
    THEN [xml |-> x, members |-> members, err |-> "IndexError"]
    ELSE tag_ArrayValue_set_from(x, members, address, value.v, 1)

\* tag[p1][p2]....value = value
tag_value_set(x, members, path, value) ==
    LET g == tag_Array_getitem(x, members, <<>>, path)
    IN IF g.err # "none" THEN [xml |-> x, members |-> members, err |-> g.err]
       ELSE IF g.kind = "Array" THEN tag_ArrayValue_set(x, members, g.address, value)
       ELSE element_IntegerValue_set(x, members, g.element, value)

\* tag.shape = value: a resize takes every element out of the document, the
\* element objects of the dictionary with them.
tag_shape_set(x, members, value) ==
    [xml |-> ArrayShape_set(x, value).xml,
     members |-> IF x.tag = "Array" /\ check_shape(value) = "none"
                 THEN {[e EXCEPT !.live = FALSE] : e \in members}
                 ELSE members,
     err |-> ArrayShape_set(x, value).err]

tag_bits(t) == IF t = "SINT" THEN 8 ELSE IF t = "INT" THEN 16 ELSE 32

\* BitValue.__set__ on bit `bit` of an integer of type t that reads v: the
\* new value of the integer, as the ctypes integer of its width gives it.
BitValue_set(t, v, bit, bit_value) ==
    IF bit_value.t \notin {"int", "bool"} THEN [err |-> "TypeError", value |-> v]
    ELSE IF bit_value.v < 0 \/ bit_value.v > 1 THEN [err |-> "ValueError", value |-> v]
    ELSE IF bit_value.v = (IF bit = tag_bits(t) - 1 THEN (IF v < 0 THEN 1 ELSE 0)
                           ELSE (v \div (2 ^ bit)) % 2)
    THEN [err |-> "none", value |-> v]
    ELSE IF bit = tag_bits(t) - 1
    THEN [err |-> "none",
          value |-> IF bit_value.v = 1 THEN v + tag_value_min(t) ELSE v - tag_value_min(t)]
    ELSE [err |-> "none",
          value |-> IF bit_value.v = 1 THEN v + 2 ^ bit ELSE v - 2 ^ bit]

\* tag[member][bit].value = bit_value: Structure.__getitem__, then
\* Integer.__getitem__ with validate_bit_number, then BitValue.__set__,
\* which assigns the value of the parent integer.
MemberBit_set(x, member, bit, bit_value) ==
    IF Structure_getitem(x, member).err # "none"
    THEN [xml |-> x, err |-> Structure_getitem(x, member).err]
    ELSE LET i == Structure_getitem(x, member).i
             t == x.Members[i].DataType
         IN IF t = "BOOL" \/ bit.t # "int" THEN [xml |-> x, err |-> "TypeError"]
            ELSE IF bit.v < 0 \/ bit.v >= tag_bits(t) THEN [xml |-> x, err |-> "IndexError"]
            ELSE LET r == BitValue_set(t, tag_IntegerValue_get(x.Members[i]).value,
                                       bit.v, bit_value)
                 IN IF r.err # "none" THEN [xml |-> x, err |-> r.err]
                    ELSE tag_IntegerValue_set(x, i, PIdx(r.value))

\* The shapes assigned to a tag: valid ones, the same or other numbers of
\* elements and dimensions, and one that is refused.
TagShapes ==
    {PTuple(<<PIdx(2)>>), PTuple(<<PIdx(3)>>), PTuple(<<PIdx(4)>>),
     PTuple(<<PIdx(2), PIdx(2)>>), PTuple(<<PIdx(3), PIdx(2)>>), PTuple(<<PIdx(0)>>)}

\* Subscript paths: in and out of the shapes above, and no integers.
TagSubscripts == {PIdx(-1), PIdx(0), PIdx(1), PIdx(3), PIdxStr}

TagPaths(x) ==
    UNION {[1..n -> TagSubscripts] : n \in 0..Len(ArrayShape_get(x).value)}

TagValues ==
    {PIdx(7), PIdxStr, PTrue, PList(<<>>), PList(<<PIdx(7), PIdx(8)>>),
     PList(<<PIdx(7), PIdx(8), PIdx(9), PIdx(7)>>), PList(<<PIdx(7), PIdxStr>>),
     PList(<<PList(<<PIdx(7)>>), PList(<<PIdx(8), PIdx(9)>>)>>)}

InitTag ==
    /\ shape = <<>>
    /\ buf = <<>>
    /\ ops = 0
    /\ \/ /\ dtype = "DINT"
          /\ \/ \E s \in {<<3>>, <<2, 2>>}, data \in {<<"Decorated">>, <<"", "L5K", "Decorated">>} :
                  xml = ArrayDocument("Array", s, data)
             \/ xml = ArrayDocument("ArrayMember", <<3>>, <<"", "Decorated">>)
          /\ views = ElementDict_init(xml)
          /\ last = [op |-> "init", err |-> "none", pre |-> NoXml, val |-> PStr]
       \/ /\ InitStruct
          /\ "" \in {xml.Data[i] : i \in 1..Len(xml.Data)}

\* tag.shape = value
TagResize ==
    /\ xml.tag \in {"Array", "ArrayMember"}
    /\ ops < MaxTagOps
    /\ \E value \in TagShapes :
         \E r \in {tag_shape_set(xml, views, value)} :
            /\ xml' = r.xml
            /\ views' = r.members
            /\ last' = [op |-> "TagResize", err |-> r.err, pre |-> xml, val |-> value]
    /\ ops' = ops + 1
    /\ UNCHANGED <<dtype, shape, buf>>

\* tag.value = value, tag[i].value = value, tag[i][j].value = value
TagValueWrite ==
    /\ xml.tag \in {"Array", "ArrayMember"}
    /\ ops < MaxTagOps
    /\ \E path \in TagPaths(xml), value \in TagValues :
         \E r \in {tag_value_set(xml, views, path, value)} :
            /\ xml' = r.xml
            /\ views' = r.members
            /\ last' = [op |-> "TagValueWrite", err |-> r.err, pre |-> xml, val |-> value,
                        path |-> path]
    /\ ops' = ops + 1
    /\ UNCHANGED <<dtype, shape, buf>>

\* tag[i], tag[i][j]
TagIndex ==
    /\ xml.tag \in {"Array", "ArrayMember"}
    /\ last.op # "TagIndex"
    /\ \E path \in TagPaths(xml) :
         \E g \in {tag_Array_getitem(xml, views, <<>>, path)} :
            last' = [op |-> "TagIndex", err |-> g.err, pre |-> xml, val |-> PStr,
                     path |-> path, got |-> g]
    /\ UNCHANGED <<dtype, shape, buf, views, ops, xml>>

\* tag.value = value and tag[member].value = value of a structure
TagStructWrite == xml.tag = "Structure" /\ (StructWrite \/ MemberWrite)

\* tag[member][bit].value = bit_value
TagBitWrite ==
    /\ xml.tag = "Structure"
    /\ ops < MaxTagOps
    /\ \E member \in {PKey("PRE"), PKey("ACC"), PKey("EN")},
          bit \in {PIdx(0), PIdx(7), PIdx(8), PIdx(31)},
          bit_value \in {PIdx(0), PIdx(1), PIdx(2), PIdxStr} :
         \E r \in {MemberBit_set(xml, member, bit, bit_value)} :
            /\ xml' = r.xml
            /\ last' = [op |-> "TagBitWrite", err |-> r.err, pre |-> xml, val |-> bit_value,
                        key |-> member, bit |-> bit]
    /\ ops' = ops + 1
    /\ UNCHANGED <<dtype, shape, buf, views>>

NextTag == TagResize \/ TagValueWrite \/ TagIndex \/ TagStructWrite \/ TagBitWrite

SpecTag == InitTag /\ [][NextTag]_vars

\* The operations that write a value or resize.
IsTagWrite ==
    last.op \in {"TagResize", "TagValueWrite", "StructWrite", "MemberWrite", "TagBitWrite"}

\* C22: in the decorated-value model, after any successful value write
\* through a tag (scalar value, integer bit, array element, whole array,
\* structure member or whole structure) and after any successful resize, the
\* tag element contains exactly one Data element and its Format is
\* Decorated: every undecorated or other-format Data element has been
\* removed.
C22_OnlyDecorated ==
    (IsTagWrite /\ last.err = "none") => xml.Data = <<"Decorated">>

\* Bit 7 of the SINT member ACC, which read -2, was cleared in a tag with
\* raw data: ACC reads 126 and only the decorated data is left.
C22_Witness ==
    /\ last.op = "TagBitWrite" /\ last.err = "none"
    /\ last.pre.Data = <<"", "Decorated">>
    /\ last.key = PKey("ACC") /\ last.bit = PIdx(7) /\ last.val = PIdx(0)
    /\ xml.Members[2].Value = <<"1", "2", "6">>
    /\ xml.Data = <<"Decorated">>

\* An element of an array with raw and L5K data was written.
C22_ElementWitness ==
    /\ last.op = "TagValueWrite" /\ last.err = "none"
    /\ last.pre.Data = <<"", "L5K", "Decorated">>
    /\ last.path = <<PIdx(1), PIdx(0)>> /\ last.val = PIdx(7)
    /\ xml.Elements[3] = [Index |-> <<"[", "1", ",", "0", "]">>, Value |-> <<"7">>]
    /\ xml.Data = <<"Decorated">>

\* C28: a successful resize regenerates every element as a copy of the
\* element that was first before the resize: afterwards the array has one
\* element per index of the new shape, each with the first element's former
\* content whatever was stored at its subscripts before, and none of the
\* elements the tag object had looked up remains in the document.
C28_CopiesOfFirst ==
    (last.op = "TagResize" /\ last.err = "none") =>
        /\ Len(xml.Elements) = Len(build_new_indices(last.val.v))
        /\ \A i \in 1..Len(xml.Elements) :
             /\ xml.Elements[i].Value = last.pre.Elements[1].Value
             /\ xml.Elements[i] = append_element(last.pre.Elements[1],
                                                 build_new_indices(last.val.v)[i])
        /\ \A e \in views : ~e.live

\* 7 was written to tag[1] of an array holding 0, 1, 2 and the array was then
\* resized to four elements: all four hold 0, the first element's value.
C28_Witness ==
    /\ last.op = "TagResize" /\ last.err = "none"
    /\ last.val = PTuple(<<PIdx(4)>>)
    /\ Len(last.pre.Elements) = 3
    /\ last.pre.Elements[2].Value = <<"7">>
    /\ [i \in 1..4 |-> xml.Elements[i].Value] = <<<<"0">>, <<"0">>, <<"0">>, <<"0">>>>

\* 7 was written to the first element and the array was resized from (2, 2)
\* to (3, 2): six elements, all 7.
C28_FirstWritten ==
    /\ last.op = "TagResize" /\ last.err = "none"
    /\ last.val = PTuple(<<PIdx(3), PIdx(2)>>)
    /\ last.pre.Elements[1].Value = <<"7">>
    /\ Len(xml.Elements) = 6
    /\ \A i \in 1..6 : xml.Elements[i].Value = <<"7">>

\* The tag was resized: every element its dictionary holds has left the
\* document.
Resized == xml.tag = "Array" /\ views # {} /\ \A e \in views : ~e.live

\* The subscripts of a path are integers; each lies inside the shape the
\* document has now (the first applies to the last dimension).
IntPath(path) == \A n \in 1..Len(path) : path[n].t = "int"

InsideShape(path) ==
    \A n \in 1..Len(path) :
       /\ path[n].v >= 0
       /\ path[n].v < ArrayShape_get(xml).value[Len(ArrayShape_get(xml).value) + 1 - n]

\* The Index attribute of the element a full path leads to.
IndexKey(path) ==
    <<"[">> \o join(",", [n \in 1..Len(path) |-> str_int(path[n].v)]) \o <<"]">>

\* Indexing returned the element of the document that carries the Index of
\* the path.
GotNewElement ==
    /\ last.err = "none"
    /\ last.got.kind = "Element"
    /\ last.got.element.live
    /\ last.got.element.Index = IndexKey(last.path)
    /\ \E n \in 1..Len(xml.Elements) :
          /\ xml.Elements[n].Index = last.got.element.Index
          /\ xml.Elements[n].Value = last.got.element.Value

IndexedAfterResize ==
    /\ last.op = "TagIndex" /\ Resized
    /\ Len(last.path) = Len(ArrayShape_get(xml).value)
    /\ IntPath(last.path)

\* C30: after a successful resize of a top-level array tag, indexing the same
\* tag object with a full subscript sequence inside the new shape returns the
\* accessor of the newly generated element with that Index, never a removed
\* element and never a KeyError, and a subscript outside the new shape raises
\* IndexError.
C30_IndexAfterResize ==
    IndexedAfterResize =>
        IF InsideShape(last.path) THEN GotNewElement ELSE last.err = "IndexError"

\* The same holds for tags of two dimensions, whose first subscript makes a
\* new array object with a dictionary of the elements then in the document;
\* and for every tag the subscripts outside the new shape raise IndexError.
C30_TwoDimensions ==
    IndexedAfterResize =>
        /\ (Len(last.path) >= 2 /\ InsideShape(last.path)) => GotNewElement
        /\ ~InsideShape(last.path) => last.err = "IndexError"

\* For a tag of one dimension the dictionary made with the tag is used: a
\* subscript the old shape had returns the removed element, a new one raises
\* KeyError.
C30_OneDimension ==
    (IndexedAfterResize /\ Len(last.path) = 1 /\ InsideShape(last.path)) =>
        IF \E e \in views : e.Index = IndexKey(last.path)
        THEN /\ last.err = "none"
             /\ last.got.kind = "Element"
             /\ ~last.got.element.live
        ELSE last.err = "KeyError"

\* tag[1][0] after a resize from (2, 2) to (3, 2) is the new element [1,0].
C30_Witness ==
    /\ IndexedAfterResize /\ GotNewElement
    /\ ArrayShape_get(xml).value = <<3, 2>>
    /\ last.path = <<PIdx(1), PIdx(0)>>
    /\ last.got.element.Index = <<"[", "1", ",", "0", "]">>

\* tag[3] after a resize from (3,) to (4,) raises KeyError.
C30_KeyErrorWitness ==
    /\ IndexedAfterResize /\ last.err = "KeyError"
    /\ ArrayShape_get(xml).value = <<4>> /\ last.path = <<PIdx(3)>>

\* ---------------------------------------------------------------------
\* Descriptions of array elements and of subarrays.
\*
\* The Comments child of the tag element holds one Comment per commented
\* operand; the project is single-language, so a Comment holds its text
\* directly.

MaxDescrOps == 2

\* Python's None and a text, as description values; Read stands for reading
\* the attribute.
DescrNone == [t |-> "None", v |-> <<>>]

DescrText(text) == [t |-> "str", v |-> text]

DescrRead == [t |-> "read", v |-> <<>>]

NoComments == [present |-> FALSE, list |-> <<>>]

\* Comment.get_comment_element: the position of the first Comment of an
\* operand, 0 for KeyError.
get_comment_element(comments, operand) ==
    IF \E i \in 1..Len(comments.list) : comments.list[i].Operand = operand
    THEN CHOOSE i \in 1..Len(comments.list) :
            /\ comments.list[i].Operand = operand
            /\ \A j \in 1..(i - 1) : comments.list[j].Operand # operand
    ELSE 0

\* Comment.__get__: None without a Comments element or without a
\* Comment of the operand.
Comment_get(x, operand) ==
    IF ~x.Comments.present THEN DescrNone
    ELSE IF get_comment_element(x.Comments, operand) = 0 THEN DescrNone
    ELSE DescrText(x.Comments.list[get_comment_element(x.Comments, operand)].text)

\* Comment.create: the Comments element is made when absent and a new
\* Comment is appended to it.
Comment_create(x, operand, text) ==
    [x EXCEPT !.Comments = [present |-> TRUE,
                            list |-> Append(x.Comments.list,
                                            [Operand |-> operand, text |-> text])]]

\* Comment.modify
Comment_modify(x, operand, text) ==
    [x EXCEPT !.Comments.list[get_comment_element(x.Comments, operand)].text = text]

\* Comment.delete: the Comment is removed, and the Comments element with it
\* when it was the last.
Comment_delete(x, operand) ==
    IF ~x.Comments.present \/ get_comment_element(x.Comments, operand) = 0 THEN x
    ELSE LET at == get_comment_element(x.Comments, operand)
             rest == SubSeq(x.Comments.list, 1, at - 1)
                     \o SubSeq(x.Comments.list, at + 1, Len(x.Comments.list))
         IN [x EXCEPT !.Comments = IF rest = <<>> THEN NoComments
                                   ELSE [present |-> TRUE, list |-> rest]]

\* Comment.__set__
Comment_set(x, operand, value) ==
    IF value # DescrNone
    THEN IF Comment_get(x, operand) = DescrNone
         THEN [xml |-> Comment_create(x, operand, value.v), err |-> "none"]
         ELSE [xml |-> Comment_modify(x, operand, value.v), err |-> "none"]
    ELSE [xml |-> Comment_delete(x, operand), err |-> "none"]

\* ArrayDescription.__get__ and SubarrayDescription.__get__
ArrayDescription_get(x, operand) == [err |-> "TypeError", value |-> DescrNone]

\* Variant without the override: the setter inherited from Comment.
ArrayDescription_set_inherited(x, operand, value) == Comment_set(x, operand, value)

\* ArrayDescription.__set__ and SubarrayDescription.__set__
ArrayDescription_set(x, operand, value) == [xml |-> x, err |-> "TypeError"]

\* The description attribute of tag[path] of a decorated array: Array objects
\* (subscripts remain) carry ArrayDescription, elements carry Comment.
tag_description(x, P, path, value) ==
    IF Len(path) < Len(ArrayShape_get(x).value)
    THEN IF value = DescrRead
         THEN [xml |-> x, err |-> ArrayDescription_get(x, P).err, got |-> DescrNone]
         ELSE [xml |-> ArrayDescription_set(x, P, value).xml,
               err |-> ArrayDescription_set(x, P, value).err, got |-> DescrNone]
    ELSE LET g == tag_Array_getitems(x, P, <<>>, path)
         IN IF g.err # "none" THEN [xml |-> x, err |-> g.err, got |-> DescrNone]
            ELSE IF value = DescrRead
            THEN [xml |-> x, err |-> "none", got |-> Comment_get(x, g.operand)]
            ELSE [xml |-> Comment_set(x, g.operand, value).xml,
                  err |-> Comment_set(x, g.operand, value).err, got |-> DescrNone]

\* The description attribute of a raw subarray: the Subarray mixin comes
\* first in the bases of the subarray type, so its SubarrayDescription is the
\* one found.
subarray_description(x, acc, operand, value) ==
    IF value = DescrRead
    THEN [xml |-> x, err |-> ArrayDescription_get(x, operand).err, got |-> DescrNone]
    ELSE [xml |-> ArrayDescription_set(x, operand, value).xml,
          err |-> ArrayDescription_set(x, operand, value).err, got |-> DescrNone]

\* What is done with a description: read, set to a text, set to None.
DescrValues == {DescrRead, DescrNone, DescrText(<<"o", "n">>), DescrText(<<"o", "f", "f">>)}

\* One to all subscripts, inside the shape.
DescrPaths == UNION {SubscriptPaths(k) : k \in 1..Len(shape)}

InitDescr ==
    /\ dtype = "DINT"
    /\ shape \in LayoutShapes
    /\ buf = [i \in 1..(Prod(shape) * sizeof(dtype)) |-> 0]
    /\ views = {}
    /\ xml = [Comments |-> NoComments] @@ ArrayDocument("Array", shape, <<"Decorated">>)
    /\ \E P \in ArrayOperands :
          last = [op |-> "init", err |-> "none", P |-> P, path |-> <<>>, val |-> DescrRead,
                  got |-> DescrNone, pre |-> NoXml]
    /\ ops = 0

\* tag[k][j].description and tag[k][j].description = value of a decorated
\* array, for a subarray or an element
DescribeDecorated ==
    /\ ops < MaxDescrOps
    /\ \E p \in DescrPaths, value \in DescrValues :
          \E r \in {tag_description(xml, last.P, p, value)} :
             /\ xml' = r.xml
             /\ last' = [op |-> "DescribeDecorated", err |-> r.err, P |-> last.P,
                         path |-> p, val |-> value, got |-> r.got, pre |-> xml]
    /\ ops' = ops + 1
    /\ UNCHANGED <<dtype, shape, buf, views>>

\* tag[k][j].description and tag[k][j].description = value of a raw array,
\* for a subarray
DescribeRaw ==
    /\ ops < MaxDescrOps
    /\ \E p \in ArrayPaths \ {<<>>}, value \in DescrValues :
          \E g \in {getitems(ArrayAccessor, PyPath(p))} :
             \E r \in {subarray_description(xml, g.acc,
                                            getitems_operand(ArrayAccessor, last.P, PyPath(p)),
                                            value)} :
                /\ g.err = "none" /\ g.acc.kind = "Array"
                /\ xml' = r.xml
                /\ last' = [op |-> "DescribeRaw", err |-> r.err, P |-> last.P,
                            path |-> p, val |-> value, got |-> r.got, pre |-> xml]
    /\ ops' = ops + 1
    /\ UNCHANGED <<dtype, shape, buf, views>>

NextDescr == DescribeDecorated \/ DescribeRaw

SpecDescr == InitDescr /\ [][NextDescr]_vars

IsDescribe == last.op \in {"DescribeDecorated", "DescribeRaw"}

\* C26: reading or writing the description of a subarray (at least one but
\* not all subscripts applied) raises TypeError and changes no comment, at
\* every partial subscript depth, for the arrays of tag.py and of array.py.
C26_SubarrayDescription ==
    (IsDescribe /\ Len(last.path) >= 1 /\ Len(last.path) < Len(shape)) =>
        /\ last.err = "TypeError"
        /\ last.got = DescrNone
        /\ xml.Comments = last.pre.Comments
        /\ xml = last.pre

\* The description of tag[1][0] of a three-dimensional array, two subscripts
\* deep, was set after element [0,0,0] had been commented: TypeError, and the
\* element's comment is the only one.
C26_Witness ==
    /\ last.op = "DescribeDecorated" /\ last.err = "TypeError"
    /\ Len(shape) = 3 /\ last.path = <<1, 0>> /\ last.val = DescrText(<<"o", "n">>)
    /\ xml.Comments.present /\ Len(xml.Comments.list) = 1
    /\ xml.Comments.list[1].text = <<"o", "f", "f">>

\* The same on a raw array, one subscript deep, reading.
C26_RawWitness ==
    /\ last.op = "DescribeRaw" /\ last.err = "TypeError"
    /\ Len(shape) = 3 /\ last.path = <<1>> /\ last.val = DescrRead
    /\ xml.Comments.present

\* An element's description, by contrast, is stored and read back.
C26_ElementWitness ==
    /\ last.op = "DescribeDecorated" /\ last.err = "none"
    /\ Len(last.path) = Len(shape) /\ last.val = DescrRead
    /\ last.got = DescrText(<<"o", "n">>)

\* ---------------------------------------------------------------------
\* Where the elements of a raw array lie (l5x/array.py), read back from a
\* buffer in which every element holds its own position: the n-th group of
\* sizeof(dtype) bytes, from 0, holds the integer n + 1.

NumberedBuffer(n, size) ==
    [i \in 1..(n * size) |-> IF (i - 1) % size = 0 THEN (i - 1) \div size + 1 ELSE 0]

InitOffset ==
    /\ dtype \in IntegerTypes
    /\ shape \in LayoutShapes
    /\ buf = NumberedBuffer(Prod(shape), sizeof(dtype))
    /\ views = {Accessor("Array", View(0, Prod(shape) * sizeof(dtype)), 0, <<>>)}
    /\ last = [op |-> "init", err |-> "none", pre |-> <<>>, val |-> PStr, path |-> <<>>,
               acc |-> NoAcc]
    /\ ops = 0
    /\ xml = NoXml

\* tag[k][j][i].value
ElementRead ==
    /\ \E p \in ElementPaths :
         \E g \in {getitems(ArrayAccessor, PyPath(p))} :
            \E r \in {Any_get(buf, g.acc)} :
               last' = [op |-> "ElementRead", err |-> r.err, pre |-> buf, val |-> r.value,
                        path |-> p, acc |-> g.acc]
    /\ UNCHANGED <<dtype, shape, buf, views, ops, xml>>

NextOffset == ElementRead

SpecOffset == InitOffset /\ [][NextOffset]_vars

\* ((k*d1 + j)*d0 + i)*s for a[k][j][i], (j*d0 + i)*s for a[j][i], i*s for
\* a[i], with (d0, d1, d2) the shape.
RowMajorOffset(p, s) ==
    IF Len(p) = 3 THEN ((p[1] * shape[2] + p[2]) * shape[1] + p[3]) * s
    ELSE IF Len(p) = 2 THEN (p[1] * shape[1] + p[2]) * s
    ELSE p[1] * s

\* C27: in a non-BOOL array with internal dimensions (d0, d1, d2) and element
\* size s, a[k][j][i] is bound to the s bytes at offset
\* ((k*d1 + j)*d0 + i)*s of the buffer ((j*d0 + i)*s for two dimensions, i*s
\* for one); the last subscript varies fastest, and the value decoded is the
\* one those bytes hold, not a neighbour's.
C27_RowMajor ==
    (last.op = "ElementRead") =>
        \A s \in {sizeof(dtype)} :
           /\ last.err = "none"
           /\ last.acc.view = View(RowMajorOffset(last.path, s), s)
           /\ last.val = PInt(Py(RowMajorOffset(last.path, s) \div s + 1))
           /\ last.val = PInt(Py(buf[last.acc.view.off + 1]))
           /\ \A q \in ElementPaths :
                (/\ \A n \in 1..(Len(q) - 1) : q[n] = last.path[n]
                 /\ q[Len(q)] = last.path[Len(q)] + 1)
                   => getitems(ArrayAccessor, PyPath(q)).acc.view.off
                         = last.acc.view.off + s

\* a[1][2][1] of an INT array of dimensions (d0, d1, d2) = (2, 3, 2) stands
\* on the two bytes at offset ((1*3 + 2)*2 + 1)*2 = 22 and reads 12, the
\* number the twelfth element holds.
C27_Witness ==
    /\ last.op = "ElementRead" /\ last.err = "none"
    /\ dtype = "INT" /\ shape = <<2, 3, 2>> /\ last.path = <<1, 2, 1>>
    /\ last.acc.view = View(22, 2)
    /\ last.val = PInt(Py(12))

====
